---- MODULE Spec2Model ----
(***************************************************************************)
(* A model of the metric sinks of effective-security/metrics:             *)
(*   - the Prometheus Sink (three sync.Map registries, copy-then-replace   *)
(*     writers, expiry sweep inside Collect / collectAtTime);              *)
(*   - the CloudWatch Sink (mutex-guarded maps, expiry sweep inside Data); *)
(*   - the InmemSink (ring of interval buckets);                           *)
(*   - the statsd Sink (bounded queue, flushMetrics worker).                *)
(* Every sync.Map operation and every atomic operation of a Prometheus     *)
(* metric object is one step; a section guarded by a mutex is one step.    *)
(***************************************************************************)
EXTENDS Integers, Sequences, FiniteSets, TLC

\* ------------------------------------------------------------------ bounds
\* The clock runs over 0 .. MaxTime (one unit is 60 minutes of wall time).
MaxTime == 2
\* The number of emission calls (SetGauge / AddSample / IncrCounter) a run makes.
MaxCalls == 2
\* The number of SetGauge calls of the run in which SetGauge calls race.
RaceCalls == 5
\* The capacity of the statsd metricQueue, make(chan string, 4096), scaled down.
QueueCap == 2

\* The number of values one AggregateSample ingests.
MaxIngest == 3

\* The number of name parts of a key.
MaxParts == 2

\* The number of member sinks of a FanoutSink.
MaxSinks == 2

\* The number of samples one publishMetricsToCloudWatch call is given.
MaxSamples == 6

\* ------------------------------------------------------------ the program
VARIABLES
    sys,          \* which sink the program under analysis was built with
    now,          \* the wall clock read by time.Now()
    budget,       \* the number of sink calls the run's workload makes
    ncalls        \* sink calls begun so far

\* ------------------------------------------------------- the Prometheus Sink
VARIABLES
    emits,        \* the kind of metric the run declares in Opts and emits
    expiration,   \* Sink.expiration (Opts.Expiration)
    gauges,       \* Sink.gauges    : hash -> *gauge
    summaries,    \* Sink.summaries : hash -> *summary
    counters,     \* Sink.counters  : hash -> *counter
    heap,         \* the prometheus.Gauge / Summary / Counter objects, by address
    w,            \* each writer goroutine's position and locals
    col,          \* the collecting goroutine's position and locals
    live,         \* history: per gauge hash, the values of the SetGauge calls no later call follows
    added,        \* history: per counter hash, the sum of the deltas passed to IncrCounter
    lastStore     \* history: the slot and entry of the last completed write

\* ------------------------------------------------------- the CloudWatch Sink
VARIABLES
    cwConfigured,     \* Config.MetricsExpiry
    cwExpiration,     \* Sink.expiration
    withCleanup,      \* Sink.withCleanup
    withSampleCount,  \* Sink.withSampleCount
    cwGauges,         \* Sink.gauges   : hash -> *types.MetricDatum
    cwSamples,        \* Sink.samples  : hash -> *types.MetricDatum
    cwCounters,       \* Sink.counters : hash -> *types.MetricDatum
    cwUpdates,        \* Sink.updates  : hash -> time.Time
    cwData,           \* what the last Data call returned
    cwPanic           \* an emission has panicked

\* ------------------------------------------------------------- the InmemSink
VARIABLES
    interval,         \* InmemSink.interval
    maxIntervals,     \* InmemSink.maxIntervals
    intervals,        \* InmemSink.intervals : the ring, a slice of *IntervalMetrics
    buckets,          \* the IntervalMetrics objects, by address
    im,               \* each goroutine's position and locals inside an InmemSink call
    imLog,            \* history: (bucket start sampled, bucket written) of each ingest
    imData            \* what the last Data call returned

\* ------------------------------------------------------------ the statsd Sink
VARIABLES
    sdQueue,          \* the lines buffered in the channel Sink.metricQueue
    sdClosed,         \* close(s.metricQueue) has run
    sdField,          \* the field Sink.metricQueue: "chan", or "nil" once QUIT has run
    sdPc,             \* flushMetrics: CONNECTING, STREAMING, WAITING or CLOSED
    sdBuf,            \* flushMetrics: buf, the lines it holds
    sdSock,           \* every sock.Write so far: the lines of the frame, and err == nil
    sdTick,           \* a tick is pending in ticker.C
    sdWait,           \* the channel wait of time.After: "none", "armed" or "fired"
    sdPanic,          \* a goroutine has panicked
    sdShut,           \* history: the worker and the lines in flight when Shutdown ran
    sdLost            \* history: the lines dequeued in the WAIT loop

\* ------------------------------------------------------ the background workers
VARIABLES
    ctxDone,          \* the context passed to Run is cancelled: ctx.Done() is closed
    tickC,            \* a tick is pending in the channel ticker.C of Run
    cwRun,            \* CloudWatch Sink.Run: its position, and history of its Flush calls
    brRun             \* promcw Bridge.Run: its position, and history of its publish calls

\* ------------------------------------- the constructors and the pure functions
VARIABLES
    args,             \* the arguments of the call under analysis
    ret               \* what the call returned

\* ------------------------------------------------------------- the FanoutSink
VARIABLES
    fh,               \* the FanoutSink: its member sinks, in order
    called            \* the calls the member sinks have received, in order of arrival

\* What construction fixes.
cfg == <<sys, emits, budget, expiration>>

promVars == <<gauges, summaries, counters, heap, w, col, live, added, lastStore>>

cwCfg == <<cwConfigured, cwExpiration, withCleanup, withSampleCount>>

cwVars == <<cwGauges, cwSamples, cwCounters, cwUpdates, cwData, cwPanic>>

imVars == <<interval, maxIntervals, intervals, buckets, im, imLog, imData>>

sdVars == <<sdQueue, sdClosed, sdField, sdPc, sdBuf, sdSock, sdTick, sdWait, sdPanic,
            sdShut, sdLost>>

runVars == <<ctxDone, tickC, cwRun>>

\* The state of the background workers.
fnVars == <<args, ret>>

fanVars == <<fh, called>>

moreVars == <<runVars, brRun, fnVars, fanVars>>

\* The state of the sinks the program was not built with.
others == <<cwCfg, cwVars, imVars>>

Kinds == {"gauge", "summary", "counter"}
\* The hashes flattenKey yields for the metrics the program emits: "s" is
\* declared in Opts (GaugeDefinitions, SummaryDefinitions or CounterDefinitions),
\* "d" is not.
Keys == {"s", "d"}
StaticKeys == {"s"}
Slots == Kinds \X Keys
Vals == {1, 2}
Writers == {"w1", "w2", "w3"}
\* Opts.Expiration: 0 (never expire) or one clock unit.
Expirations == {0, 1}

\* The zero time.Time (an entry built without updatedAt, a missing map value):
\* it precedes every clock value by more than any expiration.
ZeroTime == -2

ObjIds == 1 .. (Cardinality(Keys) + Cardinality(Writers) + 1)
ZeroVal == [n |-> 0, s |-> 0]

\* No entry under a hash (Load's ok = false); a real entry has obj >= 1.
\* pub is history: the object's value when the entry was stored.
NoEntry == [obj |-> 0, updatedAt |-> ZeroTime, canDelete |-> FALSE, pub |-> ZeroVal]

MapOf(kind) ==
    CASE kind = "gauge" -> gauges
      [] kind = "summary" -> summaries
      [] OTHER -> counters

EntryAt(slot) == MapOf(slot[1])[slot[2]]

\* Mutant for C6: a Store that drops the other keys of the map.
StoreOnly(m, k, e) == [x \in Keys |-> IF x = k THEN e ELSE NoEntry]

\* sync.Map.Store on one map.
Store(m, k, e) == [m EXCEPT ![k] = e]

\* sync.Map.Delete on one map.
Delete(m, k) == [m EXCEPT ![k] = NoEntry]

\* Gauge.Set, Summary.Observe, Counter.Add on the object's current value.
Apply(kind, old, v) ==
    CASE kind = "gauge" -> [n |-> 0, s |-> v]
      [] kind = "summary" -> [n |-> old.n + 1, s |-> old.s + v]
      [] OTHER -> [n |-> 0, s |-> old.s + v]

\* Mutant for C5: an expiration of 0 is a duration like any other.
ExpiredAlways(e, t) == e.updatedAt + expiration < t

\* Mutant for C3: the entry expires already at t = t0 + e.
ExpiredEarly(e, t) == expiration # 0 /\ e.updatedAt + expiration <= t

\* lastUpdate.Add(p.expiration).Before(t), under expire := p.expiration != 0.
Expired(e, t) == expiration # 0 /\ e.updatedAt + expiration < t

\* Mutant for C7: the copy a write publishes keeps the updatedAt it was read with.
StaleCopy(e, t) == e

\* Mutant for C4: the copy a write publishes is deletable.
LocalCopyDeletable(e, t) == [e EXCEPT !.updatedAt = t, !.canDelete = TRUE]

\* localGauge := *pg ; ... ; localGauge.updatedAt = time.Now()
LocalCopy(e, t) == [e EXCEPT !.updatedAt = t]

\* Mutant for C8: the entry of a new key points to the metric object of the
\* declared key.
NewEntryAliased(o, t) == [obj |-> 1, updatedAt |-> t, canDelete |-> TRUE, pub |-> ZeroVal]

\* &gauge{Gauge: g, updatedAt: time.Now(), canDelete: true}
NewEntry(o, t) == [obj |-> o, updatedAt |-> t, canDelete |-> TRUE, pub |-> ZeroVal]

\* initGauges / initSummaries / initCounters: m.Store(hash, &gauge{Gauge: pG})
StaticEntry(o) == [obj |-> o, updatedAt |-> ZeroTime, canDelete |-> FALSE, pub |-> ZeroVal]

\* began is history: the clock when the call began.
IdleW == [pc |-> "idle", kind |-> "gauge", key |-> "s", val |-> 0, e |-> NoEntry,
          began |-> 0]
\* todo: the keys the running Range began with and has not reached yet; done:
\* the keys its callback was called for. seen is history: the slots the
\* registry held when this Collect began.
IdleC == [pc |-> "idle", t |-> 0, kind |-> "gauge", todo |-> {}, done |-> {},
          key |-> "s", cur |-> NoEntry, out |-> {}, seen |-> {}]
NoStore == [slot |-> <<"gauge", "s">>, e |-> NoEntry]

\* The objects some map entry or some goroutine still points to.
Refs(g, s, c, ws, cl) ==
    {g[k].obj : k \in Keys} \cup {s[k].obj : k \in Keys} \cup {c[k].obj : k \in Keys}
        \cup {ws[t].e.obj : t \in Writers} \cup {cl.cur.obj}

\* Unreachable objects are garbage: their content is forgotten.
Collected(h, refs) == [o \in ObjIds |-> IF o \in refs THEN h[o] ELSE ZeroVal]

\* The address the next prometheus.NewGauge / NewSummary / NewCounter returns.
FreshObj == CHOOSE o \in ObjIds :
    /\ o \notin Refs(gauges, summaries, counters, w, col)
    /\ \A p \in ObjIds : p < o => p \in Refs(gauges, summaries, counters, w, col)

\* The hashes a map holds (what sync.Map.Range starts from).
Present(m) == {k \in Keys : m[k].obj # 0}

PresentSlots == {sl \in Slots : EntryAt(sl).obj # 0}

\* NewSinkFrom: the maps hold the declared metrics, at zero.
Declared(kind) ==
    [k \in Keys |-> IF kind = emits /\ k \in StaticKeys THEN StaticEntry(1) ELSE NoEntry]

\* NewSinkFrom(opts): the sink as constructed.
NewSinkFrom ==
    /\ gauges = Declared("gauge")
    /\ summaries = Declared("summary")
    /\ counters = Declared("counter")
    /\ heap = [o \in ObjIds |-> ZeroVal]
    /\ w = [t \in Writers |-> IdleW]
    /\ col = IdleC
    /\ live = [k \in Keys |-> {}]
    /\ added = [k \in Keys |-> 0]
    /\ lastStore = NoStore

\* The three maps after one of them is replaced.
SetMap(kind, m) ==
    /\ gauges' = IF kind = "gauge" THEN m ELSE gauges
    /\ summaries' = IF kind = "summary" THEN m ELSE summaries
    /\ counters' = IF kind = "counter" THEN m ELSE counters

\* Goroutine t is at position pc of the call (kind, k, v).
At(t, pc, kind, k, v) ==
    w[t].pc = pc /\ w[t].kind = kind /\ w[t].key = k /\ w[t].val = v

\* The writers in the middle of a SetGauge call on hash k.
Setting(k) == {x \in Writers : w[x].pc # "idle" /\ w[x].kind = "gauge" /\ w[x].key = k}

\* key, hash := flattenKey(parts, labels) ; pg, ok := p.<map>.Load(hash)
WriteLoad(t, kind, k, v) ==
    /\ sys = "prom"
    /\ w[t].pc = "idle"
    /\ kind = emits
    /\ ncalls < budget
    /\ ncalls' = ncalls + 1
    /\ LET e == MapOf(kind)[k] IN
        w' = [w EXCEPT ![t] = [pc |-> IF e.obj # 0 THEN "set" ELSE "new",
                               kind |-> kind, key |-> k, val |-> v, e |-> e,
                               began |-> now]]
    /\ live' = IF kind = "gauge"
               THEN [live EXCEPT ![k] = {w[u].val : u \in Setting(k)} \cup {v}]
               ELSE live
    /\ added' = IF kind = "counter" THEN [added EXCEPT ![k] = @ + v] ELSE added
    /\ UNCHANGED <<cfg, moreVars, sdVars, now, gauges, summaries, counters, heap, col, lastStore, others>>

\* if ok: localGauge := *pg ; localGauge.Set(val)   (the object is shared)
WriteApply(t, kind, k, v) ==
    /\ At(t, "set", kind, k, v)
    /\ heap' = [heap EXCEPT ![w[t].e.obj] = Apply(kind, @, v)]
    /\ w' = [w EXCEPT ![t].pc = "now"]
    /\ UNCHANGED <<cfg, moreVars, sdVars, now, ncalls, gauges, summaries, counters, col, live, added,
                   lastStore, others>>

\* localGauge.updatedAt = time.Now()
WriteNow(t, kind, k, v) ==
    /\ At(t, "now", kind, k, v)
    /\ w' = [w EXCEPT ![t].pc = "store", ![t].e = LocalCopy(w[t].e, now)]
    /\ UNCHANGED <<cfg, moreVars, sdVars, now, ncalls, gauges, summaries, counters, heap, col, live,
                   added, lastStore, others>>

\* else: g := prometheus.NewGauge(..) ; g.Set(val) ; pg = &gauge{g, time.Now(), true}
WriteNew(t, kind, k, v) ==
    /\ At(t, "new", kind, k, v)
    /\ heap' = [heap EXCEPT ![FreshObj] = Apply(kind, ZeroVal, v)]
    /\ w' = [w EXCEPT ![t].pc = "store", ![t].e = NewEntry(FreshObj, now)]
    /\ UNCHANGED <<cfg, moreVars, sdVars, now, ncalls, gauges, summaries, counters, col, live, added,
                   lastStore, others>>

\* p.<map>.Store(hash, &localGauge) / p.<map>.Store(hash, pg) ; return
WriteStore(t, kind, k, v) ==
    /\ At(t, "store", kind, k, v)
    /\ LET e == [w[t].e EXCEPT !.pub = heap[w[t].e.obj]] IN
        /\ SetMap(kind, Store(MapOf(kind), k, e))
        /\ lastStore' = [slot |-> <<kind, k>>, e |-> e]
    /\ w' = [w EXCEPT ![t] = IdleW]
    /\ heap' = Collected(heap, Refs(gauges', summaries', counters', w', col))
    /\ UNCHANGED <<cfg, moreVars, sdVars, now, ncalls, col, live, added, others>>

\* SetGauge(parts, val, labels), flattenKey(parts, labels) being hash k.
SetGauge(t, k, v) ==
    \/ WriteLoad(t, "gauge", k, v)
    \/ WriteApply(t, "gauge", k, v)
    \/ WriteNow(t, "gauge", k, v)
    \/ WriteNew(t, "gauge", k, v)
    \/ WriteStore(t, "gauge", k, v)

\* AddSample(parts, val, labels)
AddSample(t, k, v) ==
    \/ WriteLoad(t, "summary", k, v)
    \/ WriteApply(t, "summary", k, v)
    \/ WriteNow(t, "summary", k, v)
    \/ WriteNew(t, "summary", k, v)
    \/ WriteStore(t, "summary", k, v)

\* IncrCounter(parts, val, labels)
IncrCounter(t, k, v) ==
    \/ WriteLoad(t, "counter", k, v)
    \/ WriteApply(t, "counter", k, v)
    \/ WriteNow(t, "counter", k, v)
    \/ WriteNew(t, "counter", k, v)
    \/ WriteStore(t, "counter", k, v)

\* Collect: collectAtTime(c, time.Now()), up to the start of p.gauges.Range.
\* out is what the last Collect sent on c.
CollectBegin ==
    /\ sys = "prom"
    /\ col.pc \in {"idle", "done"}
    /\ col' = [IdleC EXCEPT !.pc = "range", !.t = now, !.kind = "gauge",
                            !.todo = Present(gauges), !.seen = PresentSlots]
    /\ UNCHANGED <<cfg, moreVars, sdVars, now, ncalls, gauges, summaries, counters, heap, w, live, added,
                   lastStore, others>>

\* Range hands the callback one key, never the same key twice, with the value
\* the map holds for it now. It reaches every key it began with, passing over
\* one deleted since; a key stored since Range began may be reached or not.
RangeVisit ==
    /\ col.pc = "range"
    /\ \E k \in (col.todo \cup Present(MapOf(col.kind))) \ col.done :
        LET v == MapOf(col.kind)[k] IN
        col' = IF v.obj = 0
               THEN [col EXCEPT !.todo = @ \ {k}]
               ELSE [col EXCEPT !.todo = @ \ {k}, !.done = @ \cup {k},
                                !.key = k, !.cur = v, !.pc = "visit"]
    /\ UNCHANGED <<cfg, moreVars, sdVars, now, ncalls, gauges, summaries, counters, heap, w, live, added,
                   lastStore, others>>

\* The callback's body: p.<map>.Delete(k) of an expired deletable entry, else g.Collect(c).
RangeAct ==
    /\ col.pc = "visit"
    /\ IF Expired(col.cur, col.t) /\ col.cur.canDelete
       THEN /\ SetMap(col.kind, Delete(MapOf(col.kind), col.key))
            /\ col' = [col EXCEPT !.pc = "range", !.cur = NoEntry]
       ELSE /\ col' = [col EXCEPT !.pc = "range", !.cur = NoEntry,
                                  !.out = @ \cup {<<col.kind, col.key>>}]
            /\ UNCHANGED <<gauges, summaries, counters>>
    /\ heap' = Collected(heap, Refs(gauges', summaries', counters', w, col'))
    /\ UNCHANGED <<cfg, moreVars, sdVars, now, ncalls, w, live, added, lastStore, others>>

\* One Range is over: the next map's Range begins, or collectAtTime returns.
RangeDone ==
    /\ col.pc = "range"
    /\ col.todo = {}
    /\ col' = CASE col.kind = "gauge" ->
                      [col EXCEPT !.kind = "summary", !.todo = Present(summaries),
                                  !.done = {}]
                 [] col.kind = "summary" ->
                      [col EXCEPT !.kind = "counter", !.todo = Present(counters),
                                  !.done = {}]
                 [] OTHER -> [col EXCEPT !.pc = "done", !.done = {}]
    /\ UNCHANGED <<cfg, moreVars, sdVars, now, ncalls, gauges, summaries, counters, heap, w, live, added,
                   lastStore, others>>

Collect ==
    \/ CollectBegin
    \/ RangeVisit
    \/ RangeAct
    \/ RangeDone

\* The wall clock advances.
Tick ==
    /\ now < MaxTime
    /\ now' = now + 1
    /\ UNCHANGED <<cfg, moreVars, sdVars, ncalls, gauges, summaries, counters, heap, w, col, live, added,
                   lastStore, others>>

\* ------------------------------------------------------- the CloudWatch Sink
\* NewSink: if sink.expiration == 0 { sink.expiration = 60 * time.Minute }
DefaultExpiry == 1

\* dimensions: if len(ds) > 10 { logger.Panicf(..) }
MaxDimensions == 10

\* The hashes of the CloudWatch Sink: the series "x" is emitted with more tags
\* than the series "s" and "d".
CwKeys == Keys \cup {"x"}

\* len(tags) of the calls that emit series k (the tags are part of the hash).
Tags(k) == CASE k = "s" -> 0 [] k = "d" -> MaxDimensions [] OTHER -> MaxDimensions + 1

\* No datum under a hash; a stored *types.MetricDatum has on = TRUE.
\* ts is Timestamp; s is Value or StatisticValues.Sum; n, lo, hi are
\* StatisticValues.SampleCount, Minimum, Maximum; dims is len(Dimensions).
NoDatum ==
    [on |-> FALSE, ts |-> ZeroTime, n |-> 0, s |-> 0, lo |-> 0, hi |-> 0, dims |-> 0]

\* dimensions(tags) panics: len(ds) > 10.
dimensionsPanics(k) == Tags(k) > MaxDimensions

Suffixes == {"", "_count", "_sum", "_avg"}

CwMapOf(kind) ==
    CASE kind = "gauge" -> cwGauges
      [] kind = "summary" -> cwSamples
      [] OTHER -> cwCounters

CwPresentSlots == {sl \in Slots : CwMapOf(sl[1])[sl[2]].on}

\* NewSink(c), c.MetricsExpiry = e.
NewSink(e) ==
    /\ cwConfigured = e
    /\ cwExpiration = IF e = 0 THEN DefaultExpiry ELSE e
    /\ cwGauges = [k \in CwKeys |-> NoDatum]
    /\ cwSamples = [k \in CwKeys |-> NoDatum]
    /\ cwCounters = [k \in CwKeys |-> NoDatum]
    /\ cwUpdates = [k \in CwKeys |-> ZeroTime]
    /\ cwData = {}
    /\ cwPanic = FALSE

\* CloudWatch Sink.SetGauge, under p.mu.
CwSetGauge(k, v) ==
    /\ sys = "cw"
    /\ ~cwPanic
    /\ ncalls < budget
    /\ ncalls' = ncalls + 1
    /\ cwUpdates' = [cwUpdates EXCEPT ![k] = now]
    /\ cwPanic' = (~cwGauges[k].on /\ dimensionsPanics(k))
    /\ cwGauges' = IF cwPanic' THEN cwGauges ELSE [cwGauges EXCEPT ![k] =
            IF @.on THEN [@ EXCEPT !.s = v, !.ts = now]
                    ELSE [NoDatum EXCEPT !.on = TRUE, !.ts = now, !.s = v,
                                         !.dims = Tags(k)]]
    /\ UNCHANGED <<cfg, moreVars, sdVars, now, promVars, cwCfg, cwSamples, cwCounters, cwData, imVars>>

\* CloudWatch Sink.AddSample, under p.mu.
CwAddSample(k, v) ==
    /\ sys = "cw"
    /\ ~cwPanic
    /\ ncalls < budget
    /\ ncalls' = ncalls + 1
    /\ cwUpdates' = [cwUpdates EXCEPT ![k] = now]
    /\ cwPanic' = (~cwSamples[k].on /\ dimensionsPanics(k))
    /\ cwSamples' = IF cwPanic' THEN cwSamples ELSE [cwSamples EXCEPT ![k] =
            IF @.on THEN [@ EXCEPT !.lo = IF v < @ THEN v ELSE @,
                                   !.hi = IF v > @ THEN v ELSE @,
                                   !.n = @ + 1, !.s = @ + v, !.ts = now]
                    ELSE [on |-> TRUE, ts |-> now, n |-> 1, s |-> v, lo |-> v, hi |-> v,
                          dims |-> Tags(k)]]
    /\ UNCHANGED <<cfg, moreVars, sdVars, now, promVars, cwCfg, cwGauges, cwCounters, cwData, imVars>>

\* CloudWatch Sink.IncrCounter, under p.mu.
CwIncrCounter(k, v) ==
    /\ sys = "cw"
    /\ ~cwPanic
    /\ ncalls < budget
    /\ ncalls' = ncalls + 1
    /\ cwUpdates' = [cwUpdates EXCEPT ![k] = now]
    /\ cwPanic' = (~cwCounters[k].on /\ dimensionsPanics(k))
    /\ cwCounters' = IF cwPanic' THEN cwCounters ELSE [cwCounters EXCEPT ![k] =
            IF @.on THEN [@ EXCEPT !.s = @ + v, !.ts = now]
                    ELSE [NoDatum EXCEPT !.on = TRUE, !.ts = now, !.s = v,
                                         !.dims = Tags(k)]]
    /\ UNCHANGED <<cfg, moreVars, sdVars, now, promVars, cwCfg, cwGauges, cwSamples, cwData, imVars>>

\* last.Add(p.expiration).Before(now), under expire := p.expiration != 0.
CwExpired(last, t) == cwExpiration # 0 /\ last + cwExpiration < t

\* One loop of Data over map m with the updates u: the hashes it appends to data ...
CwKept(m, u, t) == {k \in CwKeys : m[k].on /\ ~CwExpired(u[k], t)}

\* ... and the hashes it deletes from m and from p.updates.
CwGone(m, u, t) ==
    {k \in CwKeys : m[k].on /\ (CwExpired(u[k], t) \/ withCleanup)}

CwAfter(m, gone) == [k \in CwKeys |-> IF k \in gone THEN NoDatum ELSE m[k]]

CwUpdatesAfter(u, gone) == [k \in CwKeys |-> IF k \in gone THEN ZeroTime ELSE u[k]]

\* The section of Data under p.mu: the loops over gauges, samples and counters.
DataLocked ==
    LET u1 == CwUpdatesAfter(cwUpdates, CwGone(cwGauges, cwUpdates, now))
        u2 == CwUpdatesAfter(u1, CwGone(cwSamples, u1, now))
        u3 == CwUpdatesAfter(u2, CwGone(cwCounters, u2, now)) IN
        /\ cwGauges' = CwAfter(cwGauges, CwGone(cwGauges, cwUpdates, now))
        /\ cwSamples' = CwAfter(cwSamples, CwGone(cwSamples, u1, now))
        /\ cwCounters' = CwAfter(cwCounters, CwGone(cwCounters, u2, now))
        /\ cwUpdates' = u3
        /\ cwData' =
              {<<"gauge", k, "">> : k \in CwKept(cwGauges, cwUpdates, now)}
                \cup {<<"summary", k, x>> :
                         k \in CwKept(cwSamples, u1, now),
                         x \in IF withSampleCount THEN Suffixes ELSE {""}}
                \cup {<<"counter", k, "">> : k \in CwKept(cwCounters, u2, now)}

\* CloudWatch Sink.Data, called by the application.
Data ==
    /\ sys = "cw"
    /\ ~cwPanic
    /\ DataLocked
    /\ UNCHANGED <<cfg, moreVars, sdVars, now, ncalls, promVars, cwCfg, cwPanic, imVars>>

\* ---------------------------------------------------- CloudWatch Sink.Run
\* An error message is the sequence of its words; <<>> is err == nil.
\* What Publisher.PutMetricData can fail with.
Causes ==
    {<<"ExpiredToken", "expired">>, <<"NoCredentialProviders">>, <<"context", "canceled">>}

\* errors.Wrap(err, "failed to publish metrics").Error()
Wrap(cause) == <<"failed to publish metrics">> \o cause

\* strings.Contains(msg, word)
Contains(msg, word) == \E i \in 1 .. Len(msg) : msg[i] = word

\* Mutant for C23: every error ends the worker.
NoRetryAny(msg) == msg # <<>>

\* Run: strings.Contains(msg, "expired") || strings.Contains(msg, "NoCredentialProviders")
NoRetry(msg) == Contains(msg, "expired") \/ Contains(msg, "NoCredentialProviders")

\* Flush: what p.Publish returns for the data of one Data call; no request is
\* made for no data.
Publish(data) == IF data = {} THEN {<<>>} ELSE {<<>>} \cup {Wrap(c) : c \in Causes}

\* No worker is running.
NoRun == [pc |-> "none", seen |-> FALSE, flushes |-> 0, finals |-> 0, err |-> <<>>]

NoWorkers ==
    /\ ctxDone = FALSE
    /\ tickC = FALSE
    /\ cwRun = NoRun
    /\ brRun = NoRun

\* go s.Run(ctx): the ticker is created, the loop waits in select.
StartRun ==
    /\ ctxDone = FALSE
    /\ tickC = FALSE
    /\ cwRun = [NoRun EXCEPT !.pc = "select"]
    /\ brRun = NoRun

\* The caller cancels the context (or its deadline passes).
Cancel ==
    /\ ~ctxDone
    /\ ctxDone' = TRUE
    /\ UNCHANGED <<cfg, now, ncalls, promVars, cwCfg, cwVars, imVars, sdVars, fanVars, fnVars,
                   tickC, cwRun, brRun>>

\* The publish interval has passed: the ticker, unless stopped, sends on
\* ticker.C, a channel of capacity one.
Ticker ==
    /\ cwRun.pc \in {"select", "done", "tick"} \/ brRun.pc \in {"select", "tick"}
    /\ now < MaxTime
    /\ now' = now + 1
    /\ tickC' = TRUE
    /\ UNCHANGED <<cfg, ncalls, promVars, cwCfg, cwVars, imVars, sdVars, fanVars, fnVars,
                   ctxDone, cwRun, brRun>>

\* Mutant for C21: the cancelled loop returns without a Flush.
RunDoneNoFlush ==
    /\ cwRun.pc = "select"
    /\ ctxDone
    /\ cwRun' = [cwRun EXCEPT !.pc = "returned", !.seen = TRUE]
    /\ UNCHANGED <<cfg, brRun, now, ncalls, promVars, cwCfg, cwVars, imVars, sdVars, fanVars, fnVars,
                   ctxDone, tickC>>

\* Run, case <-ctx.Done().
RunDone ==
    /\ cwRun.pc = "select"
    /\ ctxDone
    /\ cwRun' = [cwRun EXCEPT !.pc = "done", !.seen = TRUE]
    /\ UNCHANGED <<cfg, brRun, now, ncalls, promVars, cwCfg, cwVars, imVars, sdVars, fanVars, fnVars,
                   ctxDone, tickC>>

\* Run, case <-ticker.C.
RunTick ==
    /\ cwRun.pc = "select"
    /\ tickC
    /\ tickC' = FALSE
    /\ cwRun' = [cwRun EXCEPT !.pc = "tick"]
    /\ UNCHANGED <<cfg, brRun, now, ncalls, promVars, cwCfg, cwVars, imVars, sdVars, fanVars, fnVars,
                   ctxDone>>

\* Run: p.Flush(ctx) of either case and the statements after it. The deferred
\* ticker.Stop() does not drain ticker.C.
Flush ==
    /\ cwRun.pc \in {"done", "tick"}
    /\ DataLocked
    /\ \E err \in Publish(cwData') :
          cwRun' = [cwRun EXCEPT
                      !.pc = IF cwRun.pc = "done" \/ NoRetry(err)
                             THEN "returned" ELSE "select",
                      !.flushes = @ + 1,
                      !.finals = IF cwRun.seen THEN @ + 1 ELSE @,
                      !.err = err]
    /\ UNCHANGED <<cfg, brRun, now, ncalls, promVars, cwCfg, cwPanic, imVars, sdVars, fanVars, fnVars,
                   ctxDone, tickC>>

Run ==
    \/ RunDone
    \/ RunTick
    \/ Flush

\* ------------------------------------------------------- promcw Bridge.Run
\* go bridge.Run(ctx): the ticker is created, the loop waits in select.
BrStartRun ==
    /\ ctxDone = FALSE
    /\ tickC = FALSE
    /\ cwRun = NoRun
    /\ brRun = [NoRun EXCEPT !.pc = "select"]

\* publishMetricsToCloudWatch: what it returns, errors.WithStack(err) of what
\* ExtractSamples or b.flush failed with.
BrPublish == {<<>>} \cup Causes

\* Bridge.Run, case <-ctx.Done(): return.
BrDone ==
    /\ brRun.pc = "select"
    /\ ctxDone
    /\ brRun' = [brRun EXCEPT !.pc = "returned", !.seen = TRUE]
    /\ UNCHANGED <<cfg, now, ncalls, promVars, cwCfg, cwVars, imVars, sdVars, fanVars, fnVars,
                   ctxDone, tickC, cwRun>>

\* Bridge.Run, case <-ticker.C: fetchMetricFamilies is started and mfChan read
\* until closed.
BrTick ==
    /\ brRun.pc = "select"
    /\ tickC
    /\ tickC' = FALSE
    /\ brRun' = [brRun EXCEPT !.pc = "tick"]
    /\ UNCHANGED <<cfg, now, ncalls, promVars, cwCfg, cwVars, imVars, sdVars, fanVars, fnVars,
                   ctxDone, cwRun>>

\* Bridge.Run, case <-ticker.C: publishMetricsToCloudWatch and the statements
\* after it.
BrFlush ==
    /\ brRun.pc = "tick"
    /\ \E err \in BrPublish :
          brRun' = [brRun EXCEPT
                      !.pc = IF NoRetry(err) THEN "returned" ELSE "select",
                      !.flushes = @ + 1,
                      !.finals = IF brRun.seen THEN @ + 1 ELSE @,
                      !.err = err]
    /\ UNCHANGED <<cfg, now, ncalls, promVars, cwCfg, cwVars, imVars, sdVars, fanVars, fnVars,
                   ctxDone, tickC, cwRun>>

BrRun ==
    \/ BrDone
    \/ BrTick
    \/ BrFlush

\* ------------------------------------------------- the Prometheus flattenKey
\* A string is the sequence of its characters.
\* forbiddenCharsReplacer = strings.NewReplacer(" ", "_", ".", "_", "=", "_", "-", "_", "/", "_")
Forbidden == {" ", ".", "=", "-", "/"}

\* The characters of the name parts under analysis.
Alphabet == Forbidden \cup {"a", "_"}

\* strings.Join(parts, "_")
RECURSIVE Join(_)
Join(parts) ==
    IF Len(parts) = 0 THEN <<>>
    ELSE IF Len(parts) = 1 THEN parts[1]
    ELSE parts[1] \o <<"_">> \o Join(Tail(parts))

\* Mutant for C29: the forbidden characters are dropped.
ReplaceDrop(str) == SelectSeq(str, LAMBDA c : c \notin Forbidden)

\* forbiddenCharsReplacer.Replace(key)
Replace(str) == [i \in 1 .. Len(str) |-> IF str[i] \in Forbidden THEN "_" ELSE str[i]]

\* The loop of flattenKey: hash += ";" + label.Name + "=" + label.Value
RECURSIVE Labelled(_, _)
Labelled(hash, labels) ==
    IF labels = <<>> THEN hash
    ELSE Labelled(hash \o <<";">> \o Head(labels).Name \o <<"=">> \o Head(labels).Value,
                  Tail(labels))

\* flattenKey(parts, labels): key and hash
flattenKey(parts, labels) ==
    LET key == Replace(Join(parts)) IN
    [key |-> key, hash |-> Labelled(key, labels)]

\* metrics.Tag{Name, Value}
Tag(n, v) == [Name |-> n, Value |-> v]

\* The name parts of the calls under analysis: one part of one character, up to
\* MaxParts parts "a" or ".", and one part of three characters.
PartLists ==
    {<<<<c>>>> : c \in Alphabet}
        \cup UNION {[1 .. n -> {<<"a">>, <<".">>}] : n \in 1 .. MaxParts}
        \cup {<<<<"a", "_", "a">>>>, <<<<"a", ".", "a">>>>}

\* The tag lists of the calls under analysis.
TagLists ==
    {<<>>,
     <<Tag(<<"x">>, <<"1">>)>>,
     <<Tag(<<"x">>, <<"2">>)>>,
     <<Tag(<<"x">>, <<"1">>), Tag(<<"y">>, <<"1">>)>>,
     <<Tag(<<"y">>, <<"1">>), Tag(<<"x">>, <<"1">>)>>,
     <<Tag(<<"x">>, <<"1", ";", "y", "=", "1">>)>>}

\* The arguments of one call of flattenKey.
Keyed == [parts : PartLists, labels : TagLists]

\* Two calls of flattenKey return.
CallFlattenKey ==
    /\ sys = "flatten"
    /\ ret = <<>>
    /\ ret' = <<flattenKey(args[1].parts, args[1].labels),
                flattenKey(args[2].parts, args[2].labels)>>
    /\ UNCHANGED <<cfg, now, ncalls, promVars, cwCfg, cwVars, imVars, sdVars, fanVars, runVars,
                   brRun, args>>

\* ------------------------------------------------------------ the constructors
\* The URL schemes a caller passes: sinkRegistry knows "statsd" and "inmem".
Schemes == {"inmem", "statsd", "notsupported"}

sinkRegistry == {"statsd", "inmem"}

\* The values of a query parameter: params.Get gives "" for an absent one.
Params == {"", "xxx", "0s", "1s", "2s"}

\* The strings a Config field or an environment variable holds.
Names == {"", "set"}

\* No sink and no error: the value of ret before the call returns.
NoSink ==
    [done |-> FALSE, sink |-> "nil", err |-> "", panics |-> FALSE, interval |-> 0,
     maxIntervals |-> 0, region |-> ""]

\* A constructor returned (nil, err).
Failed(msg) == [NoSink EXCEPT !.done = TRUE, !.err = msg]

\* time.ParseDuration, in seconds
ParseDuration(str) ==
    CASE str = "0s" -> [err |-> "", d |-> 0]
      [] str = "1s" -> [err |-> "", d |-> 1]
      [] str = "2s" -> [err |-> "", d |-> 2]
      [] OTHER -> [err |-> "time: invalid duration", d |-> 0]

\* NewInmemSink(interval, retain) as a function: int(retain / interval) panics
\* with an integer division by zero for a zero interval.
InmemSinkOf(i, retain) ==
    IF i = 0
    THEN [NoSink EXCEPT !.done = TRUE, !.panics = TRUE]
    ELSE [NoSink EXCEPT !.done = TRUE, !.sink = "inmem", !.interval = i,
                        !.maxIntervals = retain \div i]

NewInmemSinkFromURL(u) ==
    LET i == ParseDuration(u.interval)
        r == ParseDuration(u.retain) IN
    IF i.err # "" THEN Failed("bad 'interval' param")
    ELSE IF r.err # "" THEN Failed("bad 'retain' param")
    ELSE InmemSinkOf(i.d, r.d)

\* statsd.NewSinkFromURL: NewSink(u.Host) returns s, nil.
NewSinkFromURL(u) == [NoSink EXCEPT !.done = TRUE, !.sink = "statsd"]

NewMetricSinkFromURL(u) ==
    IF u.scheme \notin sinkRegistry THEN Failed("unrecognized sink name")
    ELSE IF u.scheme = "inmem" THEN NewInmemSinkFromURL(u)
    ELSE NewSinkFromURL(u)

\* values.Coalesce: the first string that is not empty
Coalesce(a, b, c) == IF a # "" THEN a ELSE IF b # "" THEN b ELSE c

\* newPublisher(c), called by the CloudWatch NewSink, up to the region check;
\* env is the process environment.
newPublisher(c, env) ==
    LET region == Coalesce(c.AwsRegion, env.AWS_REGION, env.AWS_DEFAULT_REGION) IN
    IF c.Namespace = "" THEN Failed("CloudWatchNamespace required")
    ELSE IF region = "" THEN Failed("CloudWatchRegion required")
    ELSE [NoSink EXCEPT !.done = TRUE, !.sink = "cloudwatch", !.region = region]

\* The URLs and the configurations a caller passes.
URLs == [fn : {"NewMetricSinkFromURL"}, scheme : Schemes, interval : Params, retain : Params]

Configs ==
    [fn : {"NewSink"}, Namespace : Names, AwsRegion : Names,
     AWS_REGION : Names, AWS_DEFAULT_REGION : Names]

\* The program has no FanoutSink.
NoFanout ==
    /\ fh = <<>>
    /\ called = <<>>

\* No call under analysis.
NoCall ==
    /\ args = <<>>
    /\ ret = <<>>

\* factory.NewMetricSinkFromURL(urlStr) returns.
CallNewMetricSinkFromURL ==
    /\ sys = "factory"
    /\ args.fn = "NewMetricSinkFromURL"
    /\ ~ret.done
    /\ ret' = NewMetricSinkFromURL(args)
    /\ UNCHANGED <<cfg, now, ncalls, promVars, cwCfg, cwVars, imVars, sdVars, fanVars, runVars,
                   brRun, args>>

\* cloudwatch.NewSink(c) returns.
CallNewSink ==
    /\ sys = "factory"
    /\ args.fn = "NewSink"
    /\ ~ret.done
    /\ ret' = newPublisher(args, args)
    /\ UNCHANGED <<cfg, now, ncalls, promVars, cwCfg, cwVars, imVars, sdVars, fanVars, runVars,
                   brRun, args>>

\* ------------------------------------------------------------- the FanoutSink
\* The sinks a FanoutSink is built from: the mockedSink of the tests, an InmemSink.
Members == {"mocked", "inmem"}

\* type FanoutSink []Sink: the member lists under analysis, a sink may be listed
\* more than once.
MemberLists == UNION {[1 .. n -> Members] : n \in 0 .. MaxSinks}

\* The tags of the calls under analysis.
FanTags == {<<>>, <<Tag(<<"x">>, <<"1">>)>>}

\* NewFanoutSink(sinks...)
NewFanoutSink(sinks) ==
    /\ fh = sinks
    /\ called = <<>>

\* What a member sink records of one call: s.SetGauge(key, val, tags), ...
Received(s, method, key, val, tags) ==
    [sink |-> s, method |-> method, key |-> key, val |-> val, tags |-> tags]

\* Mutant for C32: the members are called from the last to the first.
FanoutReversed(method, key, val, tags) ==
    [i \in 1 .. Len(fh) |-> Received(fh[Len(fh) + 1 - i], method, key, val, tags)]

\* for _, s := range fh { s.SetGauge(key, val, tags) }: the calls the members
\* receive, in order.
Fanout(method, key, val, tags) ==
    [i \in 1 .. Len(fh) |-> Received(fh[i], method, key, val, tags)]

\* FanoutSink.SetGauge(key, val, tags)
FhSetGauge(key, val, tags) ==
    /\ sys = "fanout"
    /\ ncalls < budget
    /\ ncalls' = ncalls + 1
    /\ args' = [method |-> "SetGauge", key |-> key, val |-> val, tags |-> tags]
    /\ called' = called \o Fanout("SetGauge", key, val, tags)
    /\ UNCHANGED <<cfg, now, promVars, cwCfg, cwVars, imVars, sdVars, runVars, brRun,
                   fh, ret>>

\* FanoutSink.IncrCounter(key, val, tags)
FhIncrCounter(key, val, tags) ==
    /\ sys = "fanout"
    /\ ncalls < budget
    /\ ncalls' = ncalls + 1
    /\ args' = [method |-> "IncrCounter", key |-> key, val |-> val, tags |-> tags]
    /\ called' = called \o Fanout("IncrCounter", key, val, tags)
    /\ UNCHANGED <<cfg, now, promVars, cwCfg, cwVars, imVars, sdVars, runVars, brRun,
                   fh, ret>>

\* FanoutSink.AddSample(key, val, tags)
FhAddSample(key, val, tags) ==
    /\ sys = "fanout"
    /\ ncalls < budget
    /\ ncalls' = ncalls + 1
    /\ args' = [method |-> "AddSample", key |-> key, val |-> val, tags |-> tags]
    /\ called' = called \o Fanout("AddSample", key, val, tags)
    /\ UNCHANGED <<cfg, now, promVars, cwCfg, cwVars, imVars, sdVars, runVars, brRun,
                   fh, ret>>

\* --------------------------------------------------------- the Metrics facade
\* The strings of the configurations under analysis, as sequences of characters.
Str(word) ==
    CASE word = "" -> <<>>
      [] word = "es" -> <<"e", "s">>
      [] word = "es_b" -> <<"e", "s", "_", "b">>
      [] word = "gauge" -> <<"g", "a", "u", "g", "e">>
      [] word = "counter" -> <<"c", "o", "u", "n", "t", "e", "r">>
      [] word = "sample" -> <<"s", "a", "m", "p", "l", "e">>
      [] OTHER -> <<word>>

\* strings.HasPrefix(str, prefix)
HasPrefix(str, prefix) ==
    /\ Len(prefix) <= Len(str)
    /\ SubSeq(str, 1, Len(prefix)) = prefix

\* StringStartsWithOneOf(str, slices): str starts with one of the strings.
StringStartsWithOneOf(str, slices) ==
    \E j \in DOMAIN slices : HasPrefix(str, slices[j])

\* Config.AllowMetric(key)
AllowMetric(c, key) ==
    IF Len(c.BlockedPrefixes) > 0 /\ StringStartsWithOneOf(key, c.BlockedPrefixes)
    THEN FALSE
    ELSE IF Len(c.AllowedPrefixes) > 0 /\ ~StringStartsWithOneOf(key, c.AllowedPrefixes)
    THEN TRUE
    ELSE c.FilterDefault

\* Config.Prepare(typ, key, tags...): allowed, the final key and the final tags.
Prepare(c, typ, key, tags) ==
    LET t1 == IF Len(c.GlobalTags) > 0 THEN tags \o c.GlobalTags ELSE tags
        t2 == IF c.HostName # <<>> /\ c.EnableHostnameLabel
              THEN Append(t1, Tag(<<"host">>, c.HostName))
              ELSE t1
        k2 == IF c.HostName # <<>> /\ ~c.EnableHostnameLabel /\ c.EnableHostname
              THEN c.HostName \o <<"_">> \o key
              ELSE key
        k3 == IF c.EnableTypePrefix THEN typ \o <<"_">> \o k2 ELSE k2
        t4 == IF c.ServiceName # <<>> /\ c.EnableServiceLabel
              THEN Append(t2, Tag(<<"service">>, c.ServiceName))
              ELSE t2
        k4 == IF c.ServiceName # <<>> /\ ~c.EnableServiceLabel
              THEN c.ServiceName \o <<"_">> \o k3
              ELSE k3
        k5 == IF c.GlobalPrefix # <<>> THEN c.GlobalPrefix \o <<"_">> \o k4 ELSE k4
    IN  [allowed |-> AllowMetric(c, k5), key |-> k5, tags |-> t4]

\* metrics.Config: the configurations under analysis.
FacadeConfigs ==
    [ServiceName : {Str(""), Str("es")},
     HostName : {Str(""), Str("h")},
     EnableHostname : BOOLEAN,
     EnableHostnameLabel : BOOLEAN,
     EnableServiceLabel : BOOLEAN,
     EnableTypePrefix : BOOLEAN,
     GlobalTags : {<<>>, <<Tag(<<"x">>, <<"1">>)>>},
     GlobalPrefix : {Str(""), Str("g")},
     AllowedPrefixes : {<<>>, <<Str("es")>>},
     BlockedPrefixes : {<<>>, <<Str("es")>>, <<Str("es_b")>>},
     FilterDefault : BOOLEAN]

\* The keys the program emits.
FacadeKeys == {Str("t"), Str("b"), Str("es")}

\* Metrics.SetGauge(key, val, tags...): Prepare, then the sink unless the filter
\* rejects the key.
MetricsSetGauge(key, val, tags) ==
    /\ sys = "facade"
    /\ ret = <<>>
    /\ LET p == Prepare(args, Str("gauge"), key, tags) IN
       /\ ret' = p
       /\ called' = IF p.allowed
                     THEN Append(called, Received("mocked", "SetGauge", p.key, val, p.tags))
                     ELSE called
    /\ UNCHANGED <<cfg, now, ncalls, promVars, cwCfg, cwVars, imVars, sdVars, runVars,
                   brRun, fh, args>>

\* Metrics.IncrCounter(key, val, tags...): Prepare, then the sink unless the filter
\* rejects the key.
MetricsIncrCounter(key, val, tags) ==
    /\ sys = "facade"
    /\ ret = <<>>
    /\ LET p == Prepare(args, Str("counter"), key, tags) IN
       /\ ret' = p
       /\ called' = IF p.allowed
                     THEN Append(called, Received("mocked", "IncrCounter", p.key, val, p.tags))
                     ELSE called
    /\ UNCHANGED <<cfg, now, ncalls, promVars, cwCfg, cwVars, imVars, sdVars, runVars,
                   brRun, fh, args>>

\* Metrics.AddSample(key, val, tags...): Prepare, then the sink unless the filter
\* rejects the key.
MetricsAddSample(key, val, tags) ==
    /\ sys = "facade"
    /\ ret = <<>>
    /\ LET p == Prepare(args, Str("sample"), key, tags) IN
       /\ ret' = p
       /\ called' = IF p.allowed
                     THEN Append(called, Received("mocked", "AddSample", p.key, val, p.tags))
                     ELSE called
    /\ UNCHANGED <<cfg, now, ncalls, promVars, cwCfg, cwVars, imVars, sdVars, runVars,
                   brRun, fh, args>>

\* ----------------------------------------------------- CloudWatch Sink.Flush
\* "1000 is the max metrics per request"
MaxPerRequest == 1000

\* len(p.Data()) of the calls under analysis.
DataLens ==
    {0, 1, 2, 999, 1000, 1001, 1002, 1999, 2000, 2001, 2999, 3000, 3001, 3999, 4000, 4001}

\* Publisher.PutMetricData returns nil or an error; Publish wraps the error.
PutMetricData == {<<>>} \cup {Wrap(c) : c \in Causes}

\* Flush: data := p.Data(), here the data numbered in the order of Data().
FlushData ==
    /\ sys = "flush"
    /\ ret = <<>>
    /\ ret' = [pc |-> "loop", data |-> args, puts |-> <<>>, err |-> <<>>]
    /\ UNCHANGED <<cfg, now, ncalls, promVars, cwCfg, cwVars, imVars, sdVars, fanVars, runVars,
                   brRun, args>>

\* Flush: one round of the loop for len(data) > 1000.
FlushBatch ==
    /\ sys = "flush"
    /\ ret # <<>>
    /\ ret.pc = "loop"
    /\ Len(ret.data) > MaxPerRequest
    /\ \E err \in PutMetricData :
          ret' = [pc |-> IF err # <<>> THEN "returned" ELSE "loop",
                  data |-> IF err # <<>> THEN ret.data
                           ELSE SubSeq(ret.data, MaxPerRequest + 1, Len(ret.data)),
                  puts |-> Append(ret.puts, SubSeq(ret.data, 1, MaxPerRequest)),
                  err |-> err]
    /\ UNCHANGED <<cfg, now, ncalls, promVars, cwCfg, cwVars, imVars, sdVars, fanVars, runVars,
                   brRun, args>>

\* Mutant for C34: what is left after the loop is not published.
FlushRestDropped ==
    /\ sys = "flush"
    /\ ret # <<>>
    /\ ret.pc = "loop"
    /\ Len(ret.data) <= MaxPerRequest
    /\ ret' = [ret EXCEPT !.pc = "returned"]
    /\ UNCHANGED <<cfg, now, ncalls, promVars, cwCfg, cwVars, imVars, sdVars, fanVars, runVars,
                   brRun, args>>

\* Flush: after the loop, if len(data) > 0 { p.Publish(ctx, data) }, and return.
FlushRest ==
    /\ sys = "flush"
    /\ ret # <<>>
    /\ ret.pc = "loop"
    /\ Len(ret.data) <= MaxPerRequest
    /\ IF Len(ret.data) > 0
       THEN \E err \in PutMetricData :
               ret' = [ret EXCEPT !.pc = "returned",
                                  !.puts = Append(@, ret.data),
                                  !.err = err]
       ELSE ret' = [ret EXCEPT !.pc = "returned"]
    /\ UNCHANGED <<cfg, now, ncalls, promVars, cwCfg, cwVars, imVars, sdVars, fanVars, runVars,
                   brRun, args>>

\* ---------------------------------------------------------- promcw appendDatum
\* const batchSize = 10
batchSize == 10

\* The limit appendDatum passes to getDimensions: 10 - len(b.additionalDimensions)
MaxDatumDimensions == 10

\* Label names are numbered in the order of sort.Strings; the three labels
\* getDimensions leaves out come first (they start with "__").
MetricNameLabel == 0 - 3
cwHighResLabel == 0 - 2
cwUnitLabel == 0 - 1

\* The labels of the metrics under analysis, other than the three above.
MaxLabels == 12

\* model.Metric: the metrics under analysis have the labels 1 .. k, all with the
\* value "v" but at most one with the empty value, and none, one or all of the
\* three special labels.
Metrics ==
    {[l \in 1 .. k \cup sp |-> IF l = e THEN "" ELSE "v"] :
        k \in 0 .. MaxLabels, e \in 0 .. MaxLabels,
        sp \in {{}, {MetricNameLabel}, {MetricNameLabel, cwHighResLabel, cwUnitLabel}}}

\* model.Sample: the metric, and whether validValue accepts the value.
Samples == [Metric : Metrics, valid : BOOLEAN]

\* Bridge: additionalDimensions (the names), replaceDimensions.
Bridges ==
    [additionalDimensions : {101 .. 100 + a : a \in 0 .. MaxDatumDimensions + 1},
     replaceDimensions : {<<>>, [l \in {1} |-> "r"], [l \in {MaxLabels + 1} |-> "r"]}]

\* sort.Strings(names): the names in ascending order.
RECURSIVE Sorted(_)
Sorted(names) ==
    IF names = {} THEN <<>>
    ELSE LET least == CHOOSE x \in names : \A y \in names : x <= y
         IN  <<least>> \o Sorted(names \ {least})

\* cloudwatch.Dimension{Name, Value}
Dimension(n, v) == [Name |-> n, Value |-> v]

\* dims[:num]; a negative num panics (slice bounds out of range).
Cut(dims, num) ==
    IF Len(dims) > num
    THEN IF num < 0 THEN [panics |-> TRUE, dims |-> <<>>]
         ELSE [panics |-> FALSE, dims |-> SubSeq(dims, 1, num)]
    ELSE [panics |-> FALSE, dims |-> dims]

\* getDimensions(m, num, b): dims, replacedDims, or a panic.
getDimensions(m, num, b) ==
    IF DOMAIN m = {} \/ DOMAIN m = {MetricNameLabel}
    THEN [panics |-> FALSE, dims |-> <<>>, replacedDims |-> <<>>]
    ELSE LET names == Sorted(DOMAIN m \ {MetricNameLabel, cwHighResLabel, cwUnitLabel})
             kept == SelectSeq(names, LAMBDA n : m[n] # "")
             dims == [i \in 1 .. Len(kept) |-> Dimension(kept[i], m[kept[i]])]
             replacedDims ==
                 IF DOMAIN b.replaceDimensions # {}
                 THEN [i \in 1 .. Len(kept) |->
                          IF kept[i] \in DOMAIN b.replaceDimensions
                          THEN Dimension(kept[i], b.replaceDimensions[kept[i]])
                          ELSE Dimension(kept[i], m[kept[i]])]
                 ELSE <<>>
             cut == Cut(dims, num)
             cutReplaced == Cut(replacedDims, num)
         IN  [panics |-> cut.panics \/ cutReplaced.panics,
              dims |-> cut.dims,
              replacedDims |-> cutReplaced.dims]

\* cloudwatch.MetricDatum: the dimensions of the labels, in order, and the
\* additional dimensions (getAdditionalDimensions ranges over a map).
Datum(dims, b) == [dims |-> dims, additional |-> b.additionalDimensions]

\* appendDatum(data, name, s, b): the new data, or a panic.
appendDatum(data, s, b) ==
    IF DOMAIN s.Metric = {} \/ ~s.valid
    THEN [panics |-> FALSE, data |-> data]
    ELSE LET d == getDimensions(s.Metric,
                                MaxDatumDimensions - Cardinality(b.additionalDimensions), b)
         IN  IF d.panics THEN [panics |-> TRUE, data |-> data]
             ELSE [panics |-> FALSE,
                   data |-> IF Len(d.replacedDims) > 0
                            THEN data \o <<Datum(d.dims, b), Datum(d.replacedDims, b)>>
                            ELSE Append(data, Datum(d.dims, b))]

\* appendDatum returns (or panics) for one sample.
CallAppendDatum ==
    /\ sys = "datum"
    /\ ret = <<>>
    /\ ret' = appendDatum(<<>>, args.s, args.b)
    /\ UNCHANGED <<cfg, now, ncalls, promVars, cwCfg, cwVars, imVars, sdVars, fanVars, runVars,
                   brRun, args>>

\* -------------------------------------- promcw Bridge.publishMetricsToCloudWatch
\* The samples of the vector under analysis: a value CloudWatch rejects, a
\* metric with the label __name__ alone, a metric with one more label.
VecSamples ==
    {[Metric |-> [l \in {MetricNameLabel} |-> "v"], valid |-> FALSE],
     [Metric |-> [l \in {MetricNameLabel} |-> "v"], valid |-> TRUE],
     [Metric |-> [l \in {MetricNameLabel, 1} |-> "v"], valid |-> TRUE]}

\* The Bridges under analysis: with and without ReplaceDimensions.
VecBridges ==
    [additionalDimensions : {{}, {101}},
     replaceDimensions : {<<>>, [l \in {1} |-> "r"]}]

\* Bridge.flush(data): one PutMetricData request unless data is empty.
flush(requests, data) == IF Len(data) > 0 THEN Append(requests, data) ELSE requests

\* req.Send() returns nil or an error.
Send(data) == IF Len(data) > 0 THEN {<<>>} \cup Causes ELSE {<<>>}

\* data := make([]*cloudwatch.MetricDatum, 0, batchSize), before the loop.
StartPublish ==
    ret = [pc |-> "loop", n |-> 0, data |-> <<>>, requests |-> <<>>, err |-> <<>>]

\* publishMetricsToCloudWatch: one round of the loop over the samples.
PublishSample(s) ==
    /\ sys = "batch"
    /\ ret.pc = "loop"
    /\ ret.n < MaxSamples
    /\ LET data == appendDatum(ret.data, s, args).data IN
       IF Len(data) = batchSize
       THEN \E err \in Send(data) :
               ret' = [pc |-> IF err # <<>> THEN "returned" ELSE "loop",
                       n |-> ret.n + 1,
                       data |-> <<>>,
                       requests |-> flush(ret.requests, data),
                       err |-> err]
       ELSE ret' = [ret EXCEPT !.n = @ + 1, !.data = data]
    /\ UNCHANGED <<cfg, now, ncalls, promVars, cwCfg, cwVars, imVars, sdVars, fanVars, runVars,
                   brRun, args>>

\* publishMetricsToCloudWatch, after the loop: return count, b.flush(data)
PublishRest ==
    /\ sys = "batch"
    /\ ret.pc = "loop"
    /\ \E err \in Send(ret.data) :
          ret' = [ret EXCEPT !.pc = "returned",
                             !.data = <<>>,
                             !.requests = flush(ret.requests, ret.data),
                             !.err = err]
    /\ UNCHANGED <<cfg, now, ncalls, promVars, cwCfg, cwVars, imVars, sdVars, fanVars, runVars,
                   brRun, args>>

\* ------------------------------------------------------------- the InmemSink
Threads == {"t1", "t2"}
Ops == Kinds \cup {"data"}
\* The run in which Data snapshots are read makes one call more than the others.
ImCalls == MaxCalls + 1
\* The keys the InmemSink run ingests ("s" stands for no key in a Data call).
ImKeys == {"d"}
BucketIds == 1 .. (ImCalls + 1)

\* No entry under a key of Counters / Samples. An entry is a SampledValue, which
\* holds a pointer to its AggregateSample: the aggregate is allocated when the
\* key is first ingested into the bucket and the map entry is never replaced,
\* so the aggregate's address is (bucket, map, key) and its content is kept here.
\* rate is the fraction Sum / rateDenom as <<numerator, denominator>>.
NoAggregate ==
    [count |-> 0, sum |-> 0, sumSq |-> 0, lo |-> 0, hi |-> 0,
     rate |-> <<0, 1>>, at |-> ZeroTime]

\* An address no NewIntervalMetrics has returned yet; n counts the ingests applied
\* to the bucket's maps and aggregates. Gauges holds GaugeValue structs by value
\* (0: no entry).
NoBucket ==
    [start |-> ZeroTime, n |-> 0,
     Gauges |-> [k \in ImKeys |-> 0],
     Counters |-> [k \in ImKeys |-> NoAggregate],
     Samples |-> [k \in ImKeys |-> NoAggregate]]

IdleIm == [pc |-> "idle", op |-> "data", intv |-> 0, m |-> 0, key |-> "s", val |-> 0]

\* What Data returns: the older buckets by address and, for the current bucket
\* (address cur), a new IntervalMetrics whose maps are new maps: Gauges holds the
\* copied values, Counters and Samples hold, for each copied key, the copied
\* SampledValue, that is the pointer to the aggregate of bucket cur.
\* seen is history: what the snapshot showed when Data returned.
NoData ==
    [older |-> <<>>, cur |-> 0, start |-> ZeroTime,
     Gauges |-> [k \in ImKeys |-> 0], Counters |-> {}, Samples |-> {},
     seen |-> <<>>]

\* NewInmemSink(interval, retain): maxIntervals = int(retain / interval)
NewInmemSink(i, retain) ==
    /\ interval = i
    /\ maxIntervals = retain \div i
    /\ intervals = <<>>
    /\ buckets = [b \in BucketIds |-> NoBucket]
    /\ im = [t \in Threads |-> IdleIm]
    /\ imLog = {}
    /\ imData = NoData

\* time.Time.Truncate(d)
Truncate(t, d) == (t \div d) * d

\* The address the next NewIntervalMetrics returns.
NewBucket == CHOOSE b \in BucketIds :
    /\ buckets[b] = NoBucket
    /\ \A c \in BucketIds : c < b => buckets[c] # NoBucket

\* n > 0 && i.intervals[n-1].Interval.Equal(intv)
IsCurrent(intv) ==
    /\ Len(intervals) > 0
    /\ buckets[intervals[Len(intervals)]].start = intv

\* The truncation with the copy left out: the first maxIntervals buckets stay.
RetainedFirst(ring) ==
    IF Len(ring) >= maxIntervals
    THEN SubSeq(ring, 1, maxIntervals)
    ELSE ring

\* if n >= i.maxIntervals { copy(..) ; i.intervals = i.intervals[:i.maxIntervals] }
Retained(ring) ==
    IF Len(ring) >= maxIntervals
    THEN SubSeq(ring, Len(ring) - maxIntervals + 1, Len(ring))
    ELSE ring

\* Mutant for C27: Ingest without the test a.Count == 1.
AggregateIngestNoFirst(a, v) ==
    [count |-> a.count + 1,
     sum |-> a.sum + v,
     sumSq |-> a.sumSq + v * v,
     lo |-> IF v < a.lo THEN v ELSE a.lo,
     hi |-> IF v > a.hi THEN v ELSE a.hi,
     rate |-> <<a.sum + v, interval>>,
     at |-> now]

\* AggregateSample.Ingest(v, rateDenom), rateDenom = interval / time.Second
AggregateIngest(a, v) ==
    [count |-> a.count + 1,
     sum |-> a.sum + v,
     sumSq |-> a.sumSq + v * v,
     lo |-> IF v < a.lo \/ a.count + 1 = 1 THEN v ELSE a.lo,
     hi |-> IF v > a.hi \/ a.count + 1 = 1 THEN v ELSE a.hi,
     rate |-> <<a.sum + v, interval>>,
     at |-> now]

\* AggregateSample.Mean, the fraction Sum / Count as <<numerator, denominator>>
Mean(a) == IF a.count = 0 THEN <<0, 1>> ELSE <<a.sum, a.count>>

\* The values an AggregateSample ingests.
AggVals == {-1, 1, 2, 3}

\* math.Sqrt of the fraction q: root is the integer whose square q is, or -1
\* when q is the square of no integer in 0 .. 4.
Sqrt(q) ==
    [of |-> q,
     root |-> IF \E r \in 0 .. 4 : r * r * q[2] = q[1]
              THEN CHOOSE r \in 0 .. 4 : r * r * q[2] = q[1]
              ELSE -1]

\* AggregateSample.Stddev
Stddev(a) ==
    LET num == (a.count * a.sumSq) - (a.sum * a.sum)
        div == a.count * (a.count - 1) IN
    IF div = 0 THEN [of |-> <<0, 1>>, root |-> 0] ELSE Sqrt(<<num, div>>)

\* a.Ingest(v, rateDenom) on the AggregateSample under analysis.
IngestValue ==
    /\ sys = "aggregate"
    /\ Len(args) < MaxIngest
    /\ \E v \in AggVals :
          /\ args' = Append(args, v)
          /\ ret' = AggregateIngest(ret, v)
    /\ UNCHANGED <<cfg, now, ncalls, promVars, cwCfg, cwVars, imVars, sdVars, fanVars, runVars, brRun>>

\* What a caller reads through the value d that Data returned: the copied gauge
\* values, and the aggregates that the copied SampledValues point to.
Through(d) ==
    [Gauges |-> d.Gauges,
     Counters |-> [k \in d.Counters |-> buckets[d.cur].Counters[k]],
     Samples |-> [k \in d.Samples |-> buckets[d.cur].Samples[k]]]

\* The call begins; getInterval: intv := time.Now().Truncate(i.interval)
ImSample(t, op, v) ==
    /\ sys = "inmem"
    /\ im[t].pc = "idle"
    /\ ncalls < budget
    /\ ncalls' = ncalls + 1
    /\ \E k \in ImKeys :
          im' = [im EXCEPT ![t] =
                    [pc |-> "sampled", op |-> op, intv |-> Truncate(now, interval),
                     m |-> 0,
                     key |-> IF op = "data" THEN "s" ELSE k,
                     val |-> IF op = "data" THEN 0 ELSE v]]
    /\ UNCHANGED <<cfg, moreVars, sdVars, now, promVars, cwCfg, cwVars, interval, maxIntervals,
                   intervals, buckets, imLog, imData>>

\* getExistingInterval(intv), under intervalLock.RLock
getExistingInterval(t) ==
    /\ im[t].pc = "sampled"
    /\ im' = IF IsCurrent(im[t].intv)
             THEN [im EXCEPT ![t].pc = "have", ![t].m = intervals[Len(intervals)]]
             ELSE [im EXCEPT ![t].pc = "create"]
    /\ UNCHANGED <<cfg, moreVars, sdVars, now, ncalls, promVars, cwCfg, cwVars, interval, maxIntervals,
                   intervals, buckets, imLog, imData>>

\* createInterval(intv), under intervalLock.Lock
createInterval(t) ==
    /\ im[t].pc = "create"
    /\ IF IsCurrent(im[t].intv)
       THEN /\ im' = [im EXCEPT ![t].pc = "have", ![t].m = intervals[Len(intervals)]]
            /\ UNCHANGED <<intervals, buckets>>
       ELSE /\ buckets' = [buckets EXCEPT ![NewBucket] =
                                [NoBucket EXCEPT !.start = im[t].intv]]
            /\ intervals' = Retained(Append(intervals, NewBucket))
            /\ im' = [im EXCEPT ![t].pc = "have", ![t].m = NewBucket]
    /\ UNCHANGED <<cfg, moreVars, sdVars, now, ncalls, promVars, cwCfg, cwVars, interval, maxIntervals,
                   imLog, imData>>

\* Mutant for C28: the aggregate is created on every call, not on first touch.
IngestRecreate(t) ==
    /\ im[t].pc = "have"
    /\ im[t].op \in Kinds
    /\ buckets' = [buckets EXCEPT ![im[t].m] =
            CASE im[t].op = "gauge" ->
                    [@ EXCEPT !.n = @ + 1, !.Gauges[im[t].key] = im[t].val]
              [] im[t].op = "counter" ->
                    [@ EXCEPT !.n = @ + 1,
                              !.Counters[im[t].key] = AggregateIngest(NoAggregate, im[t].val)]
              [] OTHER ->
                    [@ EXCEPT !.n = @ + 1,
                              !.Samples[im[t].key] = AggregateIngest(NoAggregate, im[t].val)]]
    /\ imLog' = imLog \cup {<<im[t].intv, im[t].m>>}
    /\ im' = [im EXCEPT ![t] = IdleIm]
    /\ UNCHANGED <<cfg, moreVars, sdVars, now, ncalls, promVars, cwCfg, cwVars, interval, maxIntervals,
                   intervals, imData>>

\* intv.Lock() ; intv.Gauges[k] = .. / agg.Ingest(..) ; intv.Unlock()
Ingest(t) ==
    /\ im[t].pc = "have"
    /\ im[t].op \in Kinds
    /\ buckets' = [buckets EXCEPT ![im[t].m] =
            CASE im[t].op = "gauge" ->
                    [@ EXCEPT !.n = @ + 1, !.Gauges[im[t].key] = im[t].val]
              [] im[t].op = "counter" ->
                    [@ EXCEPT !.n = @ + 1,
                              !.Counters[im[t].key] = AggregateIngest(@, im[t].val)]
              [] OTHER ->
                    [@ EXCEPT !.n = @ + 1,
                              !.Samples[im[t].key] = AggregateIngest(@, im[t].val)]]
    /\ imLog' = imLog \cup {<<im[t].intv, im[t].m>>}
    /\ im' = [im EXCEPT ![t] = IdleIm]
    /\ UNCHANGED <<cfg, moreVars, sdVars, now, ncalls, promVars, cwCfg, cwVars, interval, maxIntervals,
                   intervals, imData>>

\* Data after i.getInterval(): under intervalLock.RLock, the older buckets by
\* address and a copy of the current one. With n == 0 the slice expression
\* i.intervals[:n-1] panics.
ImData(t) ==
    /\ im[t].pc = "have"
    /\ im[t].op = "data"
    /\ IF Len(intervals) = 0
       THEN /\ im' = [im EXCEPT ![t].pc = "panic"]
            /\ UNCHANGED imData
       ELSE /\ LET cur == intervals[Len(intervals)]
                   d == [older |-> SubSeq(intervals, 1, Len(intervals) - 1),
                         cur |-> cur,
                         start |-> buckets[cur].start,
                         Gauges |-> buckets[cur].Gauges,
                         Counters |-> {k \in ImKeys : buckets[cur].Counters[k].count > 0},
                         Samples |-> {k \in ImKeys : buckets[cur].Samples[k].count > 0},
                         seen |-> <<>>] IN
                  imData' = [d EXCEPT !.seen = Through(d)]
            /\ im' = [im EXCEPT ![t] = IdleIm]
    /\ UNCHANGED <<cfg, moreVars, sdVars, now, ncalls, promVars, cwCfg, cwVars, interval, maxIntervals,
                   intervals, buckets, imLog>>

\* getInterval, after the clock is sampled.
getInterval(t) ==
    \/ getExistingInterval(t)
    \/ createInterval(t)

\* InmemSink.SetGauge / IncrCounter / AddSample / Data by goroutine t, after the
\* call has begun.
InmemStep(t) ==
    \/ getInterval(t)
    \/ Ingest(t)
    \/ ImData(t)

\* InmemSink.SetGauge / IncrCounter / AddSample with value 1 / Data by goroutine t.
InmemCall(t) ==
    \/ \E op \in Ops : ImSample(t, op, 1)
    \/ InmemStep(t)

\* ------------------------------------------------------------ the statsd Sink
\* statsdMaxLen is the maximum size of a packet to send to statsd
statsdMaxLen == 1400

\* The statsd run emits one line more than the queue holds.
SdCalls == QueueCap + 1

\* The lengths in bytes of the lines the run emits (the line is
\* fmt.Sprintf("%s:%f|g\n", flatKey, val), as long as its key makes it).
LineLens == {600, 800, 1500}

\* The line the n-th emission formats.
Line(n, len) == [id |-> n, len |-> len]

\* buf.Len(): the bytes of the lines in a buffer.
RECURSIVE Bytes(_)
Bytes(q) == IF q = <<>> THEN 0 ELSE Head(q).len + Bytes(Tail(q))

\* The lines of a queue, a buffer or a frame.
IdsOf(q) == {q[i].id : i \in 1 .. Len(q)}

NoShutdown == [pc |-> "none", ids |-> {}, failed |-> FALSE, late |-> {}]

\* NewSink(addr): metricQueue: make(chan string, 4096) ; go s.flushMetrics()
SdNewSink ==
    /\ sdQueue = <<>>
    /\ sdClosed = FALSE
    /\ sdField = "chan"
    /\ sdPc = "CONNECTING"
    /\ sdBuf = <<>>
    /\ sdSock = <<>>
    /\ sdTick = FALSE
    /\ sdWait = "none"
    /\ sdPanic = FALSE
    /\ sdShut = NoShutdown
    /\ sdLost = {}

\* A send that does not look at the capacity.
EnqueueAlways(q, m) == Append(q, m)

\* select { case s.metricQueue <- m: default: } on an open channel
Enqueue(q, m) == IF Len(q) < QueueCap THEN Append(q, m) ELSE q

\* pushMetric(m), called by SetGauge / IncrCounter / AddSample with the line they
\* format. The read of s.metricQueue is not synchronised with the write at QUIT:
\* once that write has run the producer gets nil or still the channel. A send on
\* a nil channel is never ready (default); a send on a closed channel panics.
pushMetric(m) ==
    /\ sys = "statsd"
    /\ ~sdPanic
    /\ ncalls < budget
    /\ ncalls' = ncalls + 1
    /\ \E ch \in {"chan", sdField} :
         /\ sdQueue' = IF ch = "chan" /\ ~sdClosed THEN Enqueue(sdQueue, m) ELSE sdQueue
         /\ sdPanic' = (ch = "chan" /\ sdClosed)
    /\ sdShut' = IF sdClosed THEN [sdShut EXCEPT !.late = @ \cup {m.id}] ELSE sdShut
    /\ UNCHANGED <<cfg, moreVars, now, promVars, cwCfg, cwVars, imVars, sdClosed, sdField, sdPc,
                   sdBuf, sdSock, sdTick, sdWait, sdLost>>

\* Shutdown: close(s.metricQueue)
Shutdown ==
    /\ sys = "statsd"
    /\ ~sdPanic
    /\ ~sdClosed
    /\ sdClosed' = TRUE
    /\ sdShut' = [pc |-> sdPc, ids |-> IdsOf(sdQueue) \cup IdsOf(sdBuf),
                  failed |-> FALSE, late |-> {}]
    /\ UNCHANGED <<cfg, moreVars, now, ncalls, promVars, cwCfg, cwVars, imVars, sdQueue, sdField,
                   sdPc, sdBuf, sdSock, sdTick, sdWait, sdPanic, sdLost>>

\* sock.Write(buf.Bytes()) with err == nil iff ok.
SockWrite(sock, frame, ok) == Append(sock, [lines |-> frame, ok |-> ok])

\* What the history of Shutdown keeps of a write.
Noted(ok) == IF sdClosed /\ ~ok THEN [sdShut EXCEPT !.failed = TRUE] ELSE sdShut

\* CONNECT: buf := bytes.NewBuffer(nil) ; sock, err = net.Dial("udp", s.addr)
Dial ==
    /\ sys = "statsd"
    /\ ~sdPanic
    /\ sdPc = "CONNECTING"
    /\ sdBuf' = <<>>
    /\ \E ok \in BOOLEAN :
         /\ sdPc' = IF ok THEN "STREAMING" ELSE "WAITING"
         /\ sdWait' = IF ok THEN sdWait ELSE "armed"
    /\ UNCHANGED <<cfg, moreVars, now, ncalls, promVars, cwCfg, cwVars, imVars, sdQueue, sdClosed,
                   sdField, sdSock, sdTick, sdPanic, sdShut, sdLost>>

\* len(metric)+buf.Len() > statsdMaxLen
Overflows(m, buf) == m.len + Bytes(buf) > statsdMaxLen

\* Mutant for C39: the write on overflow leaves the buffer as it is.
RecvKeep ==
    /\ sys = "statsd"
    /\ ~sdPanic
    /\ sdPc = "STREAMING"
    /\ sdQueue # <<>>
    /\ sdQueue' = Tail(sdQueue)
    /\ sdBuf' = Append(sdBuf, Head(sdQueue))
    /\ sdSock' = IF Overflows(Head(sdQueue), sdBuf)
                 THEN SockWrite(sdSock, sdBuf, TRUE) ELSE sdSock
    /\ UNCHANGED <<cfg, moreVars, now, ncalls, promVars, cwCfg, cwVars, imVars, sdClosed, sdField,
                   sdTick, sdPanic, sdLost, sdShut, sdPc, sdWait>>

\* The streaming loop, case metric, ok := <-s.metricQueue with ok true.
Recv ==
    /\ sys = "statsd"
    /\ ~sdPanic
    /\ sdPc = "STREAMING"
    /\ sdQueue # <<>>
    /\ sdQueue' = Tail(sdQueue)
    /\ LET metric == Head(sdQueue) IN
         IF Overflows(metric, sdBuf)
         THEN \E ok \in BOOLEAN :
                /\ sdSock' = SockWrite(sdSock, sdBuf, ok)
                /\ sdShut' = Noted(ok)
                /\ sdBuf' = IF ok THEN <<metric>> ELSE <<>>
                /\ sdPc' = IF ok THEN "STREAMING" ELSE "WAITING"
                /\ sdWait' = IF ok THEN sdWait ELSE "armed"
         ELSE /\ sdBuf' = Append(sdBuf, metric)
              /\ UNCHANGED <<sdSock, sdShut, sdPc, sdWait>>
    /\ UNCHANGED <<cfg, moreVars, now, ncalls, promVars, cwCfg, cwVars, imVars, sdClosed, sdField,
                   sdTick, sdPanic, sdLost>>

\* A tick that writes the buffer and leaves the lines in it.
OnTickKeep ==
    /\ sys = "statsd"
    /\ ~sdPanic
    /\ sdPc = "STREAMING"
    /\ sdTick
    /\ sdTick' = FALSE
    /\ sdSock' = SockWrite(sdSock, sdBuf, TRUE)
    /\ UNCHANGED <<cfg, moreVars, now, ncalls, promVars, cwCfg, cwVars, imVars, sdQueue, sdClosed,
                   sdField, sdPanic, sdLost, sdBuf, sdShut, sdPc, sdWait>>

\* The streaming loop, case <-ticker.C
OnTick ==
    /\ sys = "statsd"
    /\ ~sdPanic
    /\ sdPc = "STREAMING"
    /\ sdTick
    /\ sdTick' = FALSE
    /\ IF sdBuf = <<>>
       THEN UNCHANGED <<sdSock, sdBuf, sdShut, sdPc, sdWait>>
       ELSE \E ok \in BOOLEAN :
                /\ sdSock' = SockWrite(sdSock, sdBuf, ok)
                /\ sdShut' = Noted(ok)
                /\ sdBuf' = <<>>
                /\ sdPc' = IF ok THEN "STREAMING" ELSE "WAITING"
                /\ sdWait' = IF ok THEN sdWait ELSE "armed"
    /\ UNCHANGED <<cfg, moreVars, now, ncalls, promVars, cwCfg, cwVars, imVars, sdQueue, sdClosed,
                   sdField, sdPanic, sdLost>>

\* The WAIT loop, case _, ok := <-s.metricQueue with ok true.
Discard ==
    /\ sys = "statsd"
    /\ ~sdPanic
    /\ sdPc = "WAITING"
    /\ sdQueue # <<>>
    /\ sdQueue' = Tail(sdQueue)
    /\ sdLost' = sdLost \cup {Head(sdQueue).id}
    /\ UNCHANGED <<cfg, moreVars, now, ncalls, promVars, cwCfg, cwVars, imVars, sdClosed, sdField,
                   sdPc, sdBuf, sdSock, sdTick, sdWait, sdPanic, sdShut>>

\* A WAIT loop that leaves without the timer.
BackoffSkipped ==
    /\ sys = "statsd"
    /\ ~sdPanic
    /\ sdPc = "WAITING"
    /\ sdPc' = "CONNECTING"
    /\ UNCHANGED <<cfg, moreVars, now, ncalls, promVars, cwCfg, cwVars, imVars, sdQueue, sdClosed,
                   sdField, sdBuf, sdSock, sdTick, sdWait, sdPanic, sdShut, sdLost>>

\* The WAIT loop, case <-wait: goto CONNECT
BackoffFired ==
    /\ sys = "statsd"
    /\ ~sdPanic
    /\ sdPc = "WAITING"
    /\ sdWait = "fired"
    /\ sdWait' = "none"
    /\ sdPc' = "CONNECTING"
    /\ UNCHANGED <<cfg, moreVars, now, ncalls, promVars, cwCfg, cwVars, imVars, sdQueue, sdClosed,
                   sdField, sdBuf, sdSock, sdTick, sdPanic, sdShut, sdLost>>

\* A worker that reconnects when the queue is closed.
RecvClosedReconnect ==
    /\ sys = "statsd"
    /\ ~sdPanic
    /\ sdPc \in {"STREAMING", "WAITING"}
    /\ sdQueue = <<>>
    /\ sdClosed
    /\ sdPc' = "CONNECTING"
    /\ sdField' = "nil"
    /\ UNCHANGED <<cfg, moreVars, now, ncalls, promVars, cwCfg, cwVars, imVars, sdQueue, sdClosed,
                   sdBuf, sdSock, sdTick, sdWait, sdPanic, sdShut, sdLost>>

\* Mutant for C40: only the streaming loop looks at the closed queue.
RecvClosedStreaming ==
    /\ sys = "statsd"
    /\ ~sdPanic
    /\ sdPc = "STREAMING"
    /\ sdQueue = <<>>
    /\ sdClosed
    /\ sdPc' = "CLOSED"
    /\ sdField' = "nil"
    /\ UNCHANGED <<cfg, moreVars, now, ncalls, promVars, cwCfg, cwVars, imVars, sdQueue, sdClosed,
                   sdBuf, sdSock, sdTick, sdWait, sdPanic, sdShut, sdLost>>

\* Either loop, case .. ok := <-s.metricQueue with ok false: goto QUIT ;
\* s.metricQueue = nil ; return (the deferred ticker.Stop runs).
RecvClosed ==
    /\ sys = "statsd"
    /\ ~sdPanic
    /\ sdPc \in {"STREAMING", "WAITING"}
    /\ sdQueue = <<>>
    /\ sdClosed
    /\ sdPc' = "CLOSED"
    /\ sdField' = "nil"
    /\ UNCHANGED <<cfg, moreVars, now, ncalls, promVars, cwCfg, cwVars, imVars, sdQueue, sdClosed,
                   sdBuf, sdSock, sdTick, sdWait, sdPanic, sdShut, sdLost>>

\* The ticker sends a tick (ticker.C holds one tick; further ticks are dropped).
TickerFires ==
    /\ sys = "statsd"
    /\ ~sdPanic
    /\ sdPc # "CLOSED"
    /\ ~sdTick
    /\ sdTick' = TRUE
    /\ UNCHANGED <<cfg, moreVars, now, ncalls, promVars, cwCfg, cwVars, imVars, sdQueue, sdClosed,
                   sdField, sdPc, sdBuf, sdSock, sdWait, sdPanic, sdShut, sdLost>>

\* The timer of time.After(5 * time.Second) fires.
TimerFires ==
    /\ sys = "statsd"
    /\ ~sdPanic
    /\ sdWait = "armed"
    /\ sdWait' = "fired"
    /\ UNCHANGED <<cfg, moreVars, now, ncalls, promVars, cwCfg, cwVars, imVars, sdQueue, sdClosed,
                   sdField, sdPc, sdBuf, sdSock, sdTick, sdPanic, sdShut, sdLost>>

\* The goroutine flushMetrics.
flushMetrics ==
    \/ Dial
    \/ Recv
    \/ OnTick
    \/ Discard
    \/ BackoffFired
    \/ RecvClosed

\* ------------------------------------------------------------ the programs
\* A program built with the Prometheus Sink.
InitProm ==
    /\ sys = "prom"
    /\ now = 0
    /\ budget = MaxCalls
    /\ ncalls = 0
    /\ emits \in Kinds
    /\ expiration \in Expirations
    /\ NewSinkFrom
    /\ NewSink(0)
    /\ withCleanup = FALSE
    /\ withSampleCount = FALSE
    /\ NewInmemSink(1, 1)
    /\ SdNewSink
    /\ NoWorkers
    /\ NoFanout
    /\ NoCall

\* One application goroutine emitting, one scrape at a time.
NextProm ==
    \/ \E k \in Keys : SetGauge("w1", k, 1)
    \/ \E k \in Keys : AddSample("w1", k, 1)
    \/ \E k \in Keys : IncrCounter("w1", k, 1)
    \/ Collect
    \/ Tick

\* Two application goroutines incrementing counters, no scrape.
InitIncr == InitProm /\ emits = "counter"

NextIncr ==
    \E t \in {"w1", "w2"}, k \in Keys, v \in Vals : IncrCounter(t, k, v)

\* Three application goroutines setting one undeclared gauge, no scrape.
InitRace ==
    /\ sys = "prom"
    /\ now = 0
    /\ budget = RaceCalls
    /\ ncalls = 0
    /\ emits = "gauge"
    /\ expiration \in Expirations
    /\ NewSinkFrom
    /\ NewSink(0)
    /\ withCleanup = FALSE
    /\ withSampleCount = FALSE
    /\ NewInmemSink(1, 1)
    /\ SdNewSink
    /\ NoWorkers
    /\ NoFanout
    /\ NoCall

NextRace ==
    \E t \in Writers, v \in Vals : SetGauge(t, "d", v)

\* A program built with the CloudWatch Sink.
InitCW ==
    /\ sys = "cw"
    /\ now = 0
    /\ budget = MaxCalls
    /\ ncalls = 0
    /\ emits = "gauge"
    /\ expiration = 0
    /\ NewSinkFrom
    /\ \E e \in Expirations : NewSink(e)
    /\ withCleanup \in BOOLEAN
    /\ withSampleCount \in BOOLEAN
    /\ NewInmemSink(1, 1)
    /\ SdNewSink
    /\ NoWorkers
    /\ NoFanout
    /\ NoCall

NextCW ==
    \/ \E k \in Keys : CwSetGauge(k, 1)
    \/ \E k \in Keys : CwAddSample(k, 1)
    \/ \E k \in Keys : CwIncrCounter(k, 1)
    \/ Data
    \/ Tick

\* A program built with the CloudWatch Sink that emits series with up to
\* MaxDimensions + 1 tags.
InitCwTags ==
    /\ sys = "cw"
    /\ now = 0
    /\ budget = MaxCalls
    /\ ncalls = 0
    /\ emits = "gauge"
    /\ expiration = 0
    /\ NewSinkFrom
    /\ \E e \in Expirations : NewSink(e)
    /\ withCleanup \in BOOLEAN
    /\ withSampleCount = FALSE
    /\ NewInmemSink(1, 1)
    /\ SdNewSink
    /\ NoWorkers
    /\ NoFanout
    /\ NoCall

NextCwTags ==
    \/ \E k \in CwKeys, v \in Vals : CwSetGauge(k, v)
    \/ \E k \in CwKeys, v \in Vals : CwAddSample(k, v)
    \/ \E k \in CwKeys, v \in Vals : CwIncrCounter(k, v)
    \/ Data
    \/ Tick

\* A program built with the CloudWatch Sink that starts Run, emits one series of
\* each kind from another goroutine and cancels the context at some point.
InitCwRun ==
    /\ sys = "cw"
    /\ now = 0
    /\ budget = MaxCalls
    /\ ncalls = 0
    /\ emits = "gauge"
    /\ expiration = 0
    /\ NewSinkFrom
    /\ \E e \in Expirations : NewSink(e)
    /\ withCleanup \in BOOLEAN
    /\ withSampleCount = FALSE
    /\ NewInmemSink(1, 1)
    /\ SdNewSink
    /\ StartRun
    /\ NoFanout
    /\ NoCall

NextCwRun ==
    \/ CwSetGauge("s", 1)
    \/ CwAddSample("s", 1)
    \/ CwIncrCounter("s", 1)
    \/ Run
    \/ Cancel
    \/ Ticker

\* A program built with the Prometheus Sink and the promcw Bridge scraping it:
\* it starts Bridge.Run, emits and cancels the context at some point.
InitBridge ==
    /\ sys = "prom"
    /\ now = 0
    /\ budget = MaxCalls
    /\ ncalls = 0
    /\ emits = "gauge"
    /\ expiration = 0
    /\ NewSinkFrom
    /\ NewSink(0)
    /\ withCleanup = FALSE
    /\ withSampleCount = FALSE
    /\ NewInmemSink(1, 1)
    /\ SdNewSink
    /\ BrStartRun
    /\ NoFanout
    /\ NoCall

NextBridge ==
    \/ \E k \in Keys : SetGauge("w1", k, 1)
    \/ BrRun
    \/ Cancel
    \/ Ticker

\* A program that constructs one sink from a URL or from a CloudWatch Config.
InitFactory ==
    /\ sys = "factory"
    /\ now = 0
    /\ budget = MaxCalls
    /\ ncalls = 0
    /\ emits = "gauge"
    /\ expiration = 0
    /\ NewSinkFrom
    /\ NewSink(0)
    /\ withCleanup = FALSE
    /\ withSampleCount = FALSE
    /\ NewInmemSink(1, 1)
    /\ SdNewSink
    /\ NoWorkers
    /\ NoFanout
    /\ args \in URLs \cup Configs
    /\ ret = NoSink

NextFactory ==
    \/ CallNewMetricSinkFromURL
    \/ CallNewSink

\* A program built with either expiring registry.
\* A program that emits through a FanoutSink.
InitFanout ==
    /\ sys = "fanout"
    /\ now = 0
    /\ budget = MaxCalls
    /\ ncalls = 0
    /\ emits = "gauge"
    /\ expiration = 0
    /\ NewSinkFrom
    /\ NewSink(0)
    /\ withCleanup = FALSE
    /\ withSampleCount = FALSE
    /\ NewInmemSink(1, 1)
    /\ SdNewSink
    /\ NoWorkers
    /\ NoCall
    /\ \E sinks \in MemberLists : NewFanoutSink(sinks)

NextFanout ==
    \/ \E k \in Keys, v \in Vals, tags \in FanTags : FhSetGauge(k, v, tags)
    \/ \E k \in Keys, v \in Vals, tags \in FanTags : FhIncrCounter(k, v, tags)
    \/ \E k \in Keys, v \in Vals, tags \in FanTags : FhAddSample(k, v, tags)

\* A program that emits one metric through metrics.New(conf, mocked).
InitFacade ==
    /\ sys = "facade"
    /\ now = 0
    /\ budget = MaxCalls
    /\ ncalls = 0
    /\ emits = "gauge"
    /\ expiration = 0
    /\ NewSinkFrom
    /\ NewSink(0)
    /\ withCleanup = FALSE
    /\ withSampleCount = FALSE
    /\ NewInmemSink(1, 1)
    /\ SdNewSink
    /\ NoWorkers
    /\ NoFanout
    /\ args \in FacadeConfigs
    /\ ret = <<>>

NextFacade ==
    \/ \E k \in FacadeKeys : MetricsSetGauge(k, 1, <<>>)
    \/ \E k \in FacadeKeys : MetricsIncrCounter(k, 1, <<>>)
    \/ \E k \in FacadeKeys : MetricsAddSample(k, 1, <<>>)

\* One call of CloudWatch Sink.Flush, for each length of Data().
InitFlush ==
    /\ sys = "flush"
    /\ now = 0
    /\ budget = MaxCalls
    /\ ncalls = 0
    /\ emits = "gauge"
    /\ expiration = 0
    /\ NewSinkFrom
    /\ NewSink(0)
    /\ withCleanup = FALSE
    /\ withSampleCount = FALSE
    /\ NewInmemSink(1, 1)
    /\ SdNewSink
    /\ NoWorkers
    /\ NoFanout
    /\ args \in {[i \in 1 .. n |-> i] : n \in DataLens}
    /\ ret = <<>>

NextFlush ==
    \/ FlushData
    \/ FlushBatch
    \/ FlushRest

\* One call of appendDatum, for each sample and each Bridge.
InitDatum ==
    /\ sys = "datum"
    /\ now = 0
    /\ budget = MaxCalls
    /\ ncalls = 0
    /\ emits = "gauge"
    /\ expiration = 0
    /\ NewSinkFrom
    /\ NewSink(0)
    /\ withCleanup = FALSE
    /\ withSampleCount = FALSE
    /\ NewInmemSink(1, 1)
    /\ SdNewSink
    /\ NoWorkers
    /\ NoFanout
    /\ args \in [s : Samples, b : Bridges]
    /\ ret = <<>>

NextDatum == CallAppendDatum

\* One call of publishMetricsToCloudWatch with a vector of up to MaxSamples
\* samples.
InitBatch ==
    /\ sys = "batch"
    /\ now = 0
    /\ budget = MaxCalls
    /\ ncalls = 0
    /\ emits = "gauge"
    /\ expiration = 0
    /\ NewSinkFrom
    /\ NewSink(0)
    /\ withCleanup = FALSE
    /\ withSampleCount = FALSE
    /\ NewInmemSink(1, 1)
    /\ SdNewSink
    /\ NoWorkers
    /\ NoFanout
    /\ args \in VecBridges
    /\ StartPublish

NextBatch ==
    \/ \E s \in VecSamples : PublishSample(s)
    \/ PublishRest

InitReg == InitProm \/ InitCW

NextReg == NextProm \/ NextCW

\* A program built with the InmemSink, two goroutines calling it.
InitInmem ==
    /\ sys = "inmem"
    /\ now = 0
    /\ budget = MaxCalls
    /\ ncalls = 0
    /\ emits = "gauge"
    /\ expiration = 0
    /\ NewSinkFrom
    /\ NewSink(0)
    /\ withCleanup = FALSE
    /\ withSampleCount = FALSE
    /\ \E i \in {1, 2}, n \in {1, 2} : NewInmemSink(i, n * i)
    /\ SdNewSink
    /\ NoWorkers
    /\ NoFanout
    /\ NoCall

NextInmem ==
    \/ \E t \in Threads : InmemCall(t)
    \/ Tick

\* A program built with the InmemSink, one goroutine ingesting values and reading
\* Data.
InitSnap ==
    /\ sys = "inmem"
    /\ now = 0
    /\ budget = ImCalls
    /\ ncalls = 0
    /\ emits = "gauge"
    /\ expiration = 0
    /\ NewSinkFrom
    /\ NewSink(0)
    /\ withCleanup = FALSE
    /\ withSampleCount = FALSE
    /\ \E i \in {1, 2} : NewInmemSink(i, 2 * i)
    /\ SdNewSink
    /\ NoWorkers
    /\ NoFanout
    /\ NoCall

NextSnap ==
    \/ \E op \in Ops, v \in Vals : ImSample("t1", op, v)
    \/ InmemStep("t1")
    \/ Tick

\* A program built with the InmemSink from an interval and a retention period
\* of one or two seconds each, one goroutine calling it.
InitRetain ==
    /\ sys = "inmem"
    /\ now = 0
    /\ budget = ImCalls
    /\ ncalls = 0
    /\ emits = "gauge"
    /\ expiration = 0
    /\ NewSinkFrom
    /\ NewSink(0)
    /\ withCleanup = FALSE
    /\ withSampleCount = FALSE
    /\ \E i \in {1, 2}, r \in {1, 2} : NewInmemSink(i, r)
    /\ SdNewSink
    /\ NoWorkers
    /\ NoFanout
    /\ NoCall

NextRetain ==
    \/ \E op \in Ops : ImSample("t1", op, 1)
    \/ InmemStep("t1")
    \/ Tick

\* A program that ingests up to MaxIngest values into one AggregateSample of an
\* InmemSink with an interval of one or two seconds.
InitAggregate ==
    /\ sys = "aggregate"
    /\ now = 0
    /\ budget = MaxCalls
    /\ ncalls = 0
    /\ emits = "gauge"
    /\ expiration = 0
    /\ NewSinkFrom
    /\ NewSink(0)
    /\ withCleanup = FALSE
    /\ withSampleCount = FALSE
    /\ \E i \in {1, 2} : NewInmemSink(i, i)
    /\ SdNewSink
    /\ NoWorkers
    /\ NoFanout
    /\ args = <<>>
    /\ ret = NoAggregate

NextAggregate ==
    \/ IngestValue
    \/ Tick

\* A program built with the InmemSink, two goroutines calling SetGauge,
\* IncrCounter and AddSample with one key and the values of Vals.
InitIngest ==
    /\ sys = "inmem"
    /\ now = 0
    /\ budget = MaxCalls
    /\ ncalls = 0
    /\ emits = "gauge"
    /\ expiration = 0
    /\ NewSinkFrom
    /\ NewSink(0)
    /\ withCleanup = FALSE
    /\ withSampleCount = FALSE
    /\ NewInmemSink(2, 2)
    /\ SdNewSink
    /\ NoWorkers
    /\ NoFanout
    /\ NoCall

NextIngest ==
    \/ \E t \in Threads, op \in Kinds, v \in Vals : ImSample(t, op, v)
    \/ \E t \in Threads : getInterval(t)
    \/ \E t \in Threads : Ingest(t)
    \/ Tick

\* A program that flattens the keys of two metrics.
InitFlatten ==
    /\ sys = "flatten"
    /\ now = 0
    /\ budget = MaxCalls
    /\ ncalls = 0
    /\ emits = "gauge"
    /\ expiration = 0
    /\ NewSinkFrom
    /\ NewSink(0)
    /\ withCleanup = FALSE
    /\ withSampleCount = FALSE
    /\ NewInmemSink(1, 1)
    /\ SdNewSink
    /\ NoWorkers
    /\ NoFanout
    /\ args \in Keyed \X Keyed
    /\ ret = <<>>

NextFlatten == CallFlattenKey

\* A program built with the statsd Sink: goroutines emitting, Shutdown at some
\* point, the worker, the ticker and the backoff timer.
InitStatsd ==
    /\ sys = "statsd"
    /\ now = 0
    /\ budget = SdCalls
    /\ ncalls = 0
    /\ emits = "gauge"
    /\ expiration = 0
    /\ NewSinkFrom
    /\ NewSink(0)
    /\ withCleanup = FALSE
    /\ withSampleCount = FALSE
    /\ NewInmemSink(1, 1)
    /\ SdNewSink
    /\ NoWorkers
    /\ NoFanout
    /\ NoCall

NextStatsd ==
    \/ \E len \in LineLens : pushMetric(Line(ncalls + 1, len))
    \/ Shutdown
    \/ flushMetrics
    \/ TickerFires
    \/ TimerFires

\* A program built with the statsd Sink that emits MaxCalls lines of 800 bytes.
InitStatsdLive ==
    /\ sys = "statsd"
    /\ now = 0
    /\ budget = MaxCalls
    /\ ncalls = 0
    /\ emits = "gauge"
    /\ expiration = 0
    /\ NewSinkFrom
    /\ NewSink(0)
    /\ withCleanup = FALSE
    /\ withSampleCount = FALSE
    /\ NewInmemSink(1, 1)
    /\ SdNewSink
    /\ NoWorkers
    /\ NoFanout
    /\ NoCall

NextStatsdLive ==
    \/ pushMetric(Line(ncalls + 1, 800))
    \/ Shutdown
    \/ flushMetrics
    \/ TickerFires
    \/ TimerFires

vars == <<cfg, now, ncalls, promVars, cwCfg, cwVars, imVars, sdVars, moreVars>>

SpecProm == InitProm /\ [][NextProm]_vars

SpecIncr == InitIncr /\ [][NextIncr]_vars

SpecRace == InitRace /\ [][NextRace]_vars

SpecReg == InitReg /\ [][NextReg]_vars

SpecCwTags == InitCwTags /\ [][NextCwTags]_vars

SpecInmem == InitInmem /\ [][NextInmem]_vars

SpecSnap == InitSnap /\ [][NextSnap]_vars

SpecRetain == InitRetain /\ [][NextRetain]_vars

SpecAggregate == InitAggregate /\ [][NextAggregate]_vars

SpecIngest == InitIngest /\ [][NextIngest]_vars

SpecFlatten == InitFlatten /\ [][NextFlatten]_vars

SpecStatsd == InitStatsd /\ [][NextStatsd]_vars

\* A select whose case <-ctx.Done() stays ready ends up taking it, and Flush
\* returns: PutMetricData is bounded by the context and the client's timeout.
SpecCwRun ==
    /\ InitCwRun
    /\ [][NextCwRun]_vars
    /\ WF_vars(RunDone)
    /\ WF_vars(Flush)

SpecFactory == InitFactory /\ [][NextFactory]_vars

SpecBridge == InitBridge /\ [][NextBridge]_vars

SpecFanout == InitFanout /\ [][NextFanout]_vars

\* net.Dial returns, and a select that finds the case of s.metricQueue ready
\* again and again ends up taking it (select chooses among its ready cases at
\* random). Nothing is assumed of the producers, the ticker or the backoff timer.
SpecStatsdQuit ==
    /\ InitStatsdLive
    /\ [][NextStatsdLive]_vars
    /\ WF_vars(Dial)
    /\ SF_vars(Recv \/ Discard \/ RecvClosed)

SpecBatch == InitBatch /\ [][NextBatch]_vars

SpecDatum == InitDatum /\ [][NextDatum]_vars

SpecFlush == InitFlush /\ [][NextFlush]_vars

SpecFacade == InitFacade /\ [][NextFacade]_vars

\* The timer of time.After fires once its duration has passed, and a select
\* whose case <-wait stays ready ends up taking it.
SpecStatsdLive ==
    /\ InitStatsdLive
    /\ [][NextStatsdLive]_vars
    /\ WF_vars(TimerFires)
    /\ WF_vars(BackoffFired)

\* ------------------------------------------------------------- properties
Quiet == \A t \in Writers : w[t].pc = "idle"

\* The slot a writer in the middle of a call writes.
Written(t) == IF w[t].pc = "idle" THEN {} ELSE {<<w[t].kind, w[t].key>>}

\* The declared slots of the run.
StaticSlots == {sl \in Slots : sl[1] = emits /\ sl[2] \in StaticKeys}

\* The value of a metric object to which a write of v was applied.
Reflects(kind, val, v) ==
    CASE kind = "gauge" -> val.s = v
      [] kind = "summary" -> val.n >= 1 /\ val.s >= v
      [] OTHER -> val.s >= v

\* C1: once all IncrCounter calls on a key have returned (no eviction in between),
\* the counter under that key holds the sum of all the deltas passed.
C1_NoLostIncrement ==
    \A k \in Keys :
        (Quiet /\ added[k] > 0) =>
            /\ counters[k].obj # 0
            /\ heap[counters[k].obj].s = added[k]

\* C2: once all SetGauge calls on a key have returned, the gauge holds the value
\* passed by a call that no other call on that key strictly follows.
C2_LastWriterWins ==
    \A k \in Keys :
        (Quiet /\ live[k] # {} /\ gauges[k].obj # 0) =>
            heap[gauges[k].obj].s \in live[k]

\* C3: with expiration e > 0, the callback of collectAtTime(t) handed a dynamic
\* entry with updatedAt t0 renders it and keeps it if t <= t0 + e; otherwise it
\* deletes the key and sends nothing for it.
C3_RenderedIffNotExpired ==
    [][(col.pc = "visit" /\ col' # col /\ expiration > 0 /\ col.cur.canDelete) =>
        LET sl == <<col.kind, col.key>> IN
        IF col.t <= col.cur.updatedAt + expiration
        THEN sl \in col'.out /\ EntryAt(sl)' = EntryAt(sl)
        ELSE sl \notin col'.out /\ EntryAt(sl)'.obj = 0]_vars

\* A Collect found a dynamic entry, written earlier and expired since, swept it
\* and left it out of its output.
C3_Witness ==
    /\ expiration > 0
    /\ col.pc = "done"
    /\ Quiet
    /\ lastStore.e.canDelete
    /\ lastStore.slot \in col.seen
    /\ lastStore.slot \notin col.out
    /\ EntryAt(lastStore.slot).obj = 0
    /\ lastStore.e.updatedAt + expiration < col.t

\* C4: a declared entry is always registered and never deletable, whatever was
\* written to it, and every completed Collect has rendered it.
C4_StaticAlwaysRendered ==
    sys = "prom" =>
        \A sl \in StaticSlots :
            /\ EntryAt(sl).obj # 0
            /\ ~EntryAt(sl).canDelete
            /\ col.pc = "done" => sl \in col.out

\* A declared entry was written, its expiration time has passed, and the Collect
\* that ran after that rendered it.
C4_Witness ==
    /\ expiration > 0
    /\ col.pc = "done"
    /\ \E sl \in StaticSlots :
        /\ EntryAt(sl).updatedAt >= 0
        /\ EntryAt(sl).updatedAt + expiration < col.t
        /\ heap[EntryAt(sl).obj] # ZeroVal
        /\ sl \in col.out

\* A program built with the named sink whose expiration is configured as 0
\* (CloudWatch: and no WithCleanup, which removes what Data has returned).
ConfiguredZero ==
    \/ sys = "prom" /\ expiration = 0
    \/ sys = "cw" /\ cwConfigured = 0 /\ ~withCleanup

\* The entries the registry of the program holds.
Registered == IF sys = "cw" THEN CwPresentSlots ELSE PresentSlots

\* The slots of the data the last Data call returned.
CwReturned == {<<x[1], x[2]>> : x \in cwData}

\* A step of the CloudWatch program that is a Data call.
DataStep == sys = "cw" /\ ncalls' = ncalls /\ now' = now

C6_EvictionOnlyInSweep ==
    [][/\ \A t \in Writers : w'[t] # w[t] =>
            \A sl \in Slots :
                /\ EntryAt(sl).obj # 0 => EntryAt(sl)'.obj # 0
                /\ sl \notin Written(t) =>
                    /\ EntryAt(sl)' = EntryAt(sl)
                    /\ EntryAt(sl).obj # 0 => heap'[EntryAt(sl).obj] = heap[EntryAt(sl).obj]
       /\ (sys = "cw" /\ ncalls' # ncalls) =>
            /\ CwPresentSlots \subseteq CwPresentSlots'
            /\ Cardinality({sl \in Slots :
                    CwMapOf(sl[1])'[sl[2]] # CwMapOf(sl[1])[sl[2]]}) <= 1
       /\ ~(PresentSlots \subseteq PresentSlots') => (col.pc = "visit" /\ col'.pc = "range")
       /\ ~(CwPresentSlots \subseteq CwPresentSlots') => DataStep
      ]_vars

\* Two slots of the registry were written, one after the other, and both are
\* registered.
C6_Witness ==
    \/ /\ sys = "prom"
       /\ Quiet
       /\ lastStore.e.canDelete
       /\ EntryAt(lastStore.slot) = lastStore.e
       /\ \E sl \in StaticSlots : EntryAt(sl).updatedAt >= 0
    \/ /\ sys = "cw"
       /\ Cardinality(CwPresentSlots) >= 2

\* A step of writer t inside a call, and a step of the collector inside a Collect.
WriterStep(t) ==
    \E kind \in Kinds, k \in Keys, v \in Vals :
        \/ WriteApply(t, kind, k, v)
        \/ WriteNow(t, kind, k, v)
        \/ WriteNew(t, kind, k, v)
        \/ WriteStore(t, kind, k, v)

CollectorStep == RangeVisit \/ RangeAct \/ RangeDone

\* C7: one writer and one collector, in any interleaving. Neither blocks: a call
\* in progress always has a next step. The entry a write is about to store is
\* well formed: it points to a metric object that reflects the written value, its
\* updatedAt was read from the clock during the call, and it is deletable exactly
\* if the key is not declared. Once the write has returned, its slot holds that
\* entry or none. No other slot shares the metric object a write touches.
C7_WriteSweepRace ==
    sys = "prom" =>
        /\ \A t \in Writers : w[t].pc # "idle" => ENABLED WriterStep(t)
        /\ col.pc \in {"range", "visit"} => ENABLED CollectorStep
        /\ \A t \in Writers : w[t].pc = "store" =>
            /\ w[t].e.obj # 0
            /\ Reflects(w[t].kind, heap[w[t].e.obj], w[t].val)
            /\ w[t].began <= w[t].e.updatedAt
            /\ w[t].e.updatedAt <= now
            /\ w[t].e.canDelete = (w[t].key \notin StaticKeys)
        /\ (Quiet /\ lastStore.e.obj # 0) =>
            /\ EntryAt(lastStore.slot) \in {NoEntry, lastStore.e}
            /\ EntryAt(lastStore.slot).obj # 0 =>
                    heap[lastStore.e.obj] = lastStore.e.pub
        /\ \A sl \in PresentSlots :
            /\ \A t \in Writers :
                    (w[t].pc # "idle" /\ w[t].e.obj = EntryAt(sl).obj) => sl \in Written(t)
            /\ \A s2 \in PresentSlots : EntryAt(s2).obj = EntryAt(sl).obj => s2 = sl

\* A write stored a fresh entry of a dynamic key while a Collect was sweeping
\* that key as expired, and the Collect's Delete removed the fresh entry: the
\* write has returned, the stored entry is not expired for the Collect, and the
\* slot is empty.
C7_Witness ==
    /\ expiration > 0
    /\ Quiet
    /\ col.pc \in {"range", "done"}
    /\ lastStore.e.canDelete
    /\ lastStore.slot \in col.seen
    /\ col.t <= lastStore.e.updatedAt + expiration
    /\ EntryAt(lastStore.slot) = NoEntry

\* The value g.Collect(c) reads for the entry the collector holds.
Observed == heap[col.cur.obj]

\* C8 as stated: the value Collect reads for an entry is the value that was
\* published together with the updatedAt it holds.
C8_NoHalfUpdate ==
    col.pc = "visit" => Observed = col.cur.pub

\* C8 amended: the collector takes updatedAt and canDelete from one published
\* entry, but reads the value from the shared metric object: it is the value
\* published with that entry, or a newer one set by a write to that key which
\* has passed its value update (still before its Store, or already returned
\* with a later updatedAt). So a new value can be seen with the old updatedAt;
\* an old value is never seen with a new updatedAt.
C8_ValueNeverOlder ==
    col.pc = "visit" =>
        LET sl == <<col.kind, col.key>> IN
        \/ Observed = col.cur.pub
        \/ \E t \in Writers :
            /\ w[t].pc \in {"now", "store"}
            /\ sl \in Written(t)
            /\ w[t].e.obj = col.cur.obj
        \/ /\ EntryAt(sl).obj = col.cur.obj
           /\ EntryAt(sl).updatedAt >= col.cur.updatedAt
           /\ EntryAt(sl).pub = Observed

\* The collector holds an entry of a key that a write has replaced since: it is
\* about to read the new value and to judge expiry by the old updatedAt.
C8_Witness ==
    /\ col.pc = "visit"
    /\ Quiet
    /\ Observed # col.cur.pub
    /\ EntryAt(<<col.kind, col.key>>).updatedAt > col.cur.updatedAt

\* The start time of the bucket at position i of the ring.
StartAt(i) == buckets[intervals[i]].start

\* C9: all ingests that sampled the same bucket start were recorded in one and
\* the same bucket, and the start times of the ring are strictly increasing (no
\* start time occurs twice).
C9_OneBucketPerWindow ==
    /\ \A x, y \in imLog : x[1] = y[1] => x[2] = y[2]
    /\ \A i, j \in 1 .. Len(intervals) : i < j => StartAt(i) < StartAt(j)

\* C10: an ingest modifies only the newest bucket of the ring: no step changes the
\* content of a bucket while a newer one has been appended after it.
C10_OnlyNewestMutable ==
    [][\A b \in BucketIds :
        (buckets[b] # NoBucket /\ buckets'[b] # buckets[b]) =>
            (Len(intervals) > 0 /\ b = intervals[Len(intervals)])]_vars

\* C11: what a caller sees through the value Data returned (gauges, counters,
\* sample aggregates) stays what it was when Data returned, whatever ingests
\* complete afterwards.
C11_SnapshotIndependent ==
    imData.cur # 0 => Through(imData) = imData.seen

\* The buckets of a ring.
InRing(ring) == {ring[i] : i \in 1 .. Len(ring)}

\* The last n elements of a sequence (all of it when it is shorter).
LastOf(q, n) == SubSeq(q, IF Len(q) > n THEN Len(q) - n + 1 ELSE 1, Len(q))

SentIds(sock) == UNION {IdsOf(sock[i].lines) : i \in {j \in 1 .. Len(sock) : sock[j].ok}}

\* The lines of all frames handed to the socket.
FramedIds(sock) == UNION {IdsOf(sock[i].lines) : i \in 1 .. Len(sock)}

\* A step that is a call of pushMetric.
PushStep == ncalls' = ncalls + 1

\* C13: before Shutdown, in every state of the worker, pushMetric can run and is
\* one step that leaves the worker alone: with room in the queue the line is
\* appended, with the queue at its capacity the line is dropped and the queue is
\* unchanged; the queue never holds more than its capacity.
C13_NonBlockingPush ==
    [][/\ Len(sdQueue') <= QueueCap
       /\ (~sdClosed /\ ncalls < budget) =>
            /\ sdPc \in {"CONNECTING", "STREAMING", "WAITING"}
            /\ ENABLED (\E len \in LineLens : pushMetric(Line(ncalls + 1, len)))
       /\ (PushStep /\ ~sdClosed) =>
            /\ ~sdPanic'
            /\ UNCHANGED <<sdPc, sdBuf, sdSock, sdClosed>>
            /\ IF Len(sdQueue) >= QueueCap
               THEN sdQueue' = sdQueue
               ELSE \E len \in LineLens :
                        sdQueue' = Append(sdQueue, Line(ncalls + 1, len))]_vars

\* C13 happens: the worker has taken nothing from the queue, the queue is at its
\* capacity and one more line was pushed and dropped.
C13_Witness ==
    /\ ~sdClosed
    /\ Len(sdQueue) = QueueCap
    /\ ncalls = QueueCap + 1
    /\ sdBuf = <<>> /\ sdSock = <<>> /\ sdLost = {}

\* C14: the worker changes state only along CONNECTING->STREAMING,
\* CONNECTING->WAITING, STREAMING->WAITING (with a failed socket write),
\* WAITING->CONNECTING (with the backoff timer fired) and
\* STREAMING/WAITING->CLOSED (with the queue closed); in CLOSED nothing is
\* dequeued, dialled or written any more and the state is never left.
C14_StateMachine ==
    [][/\ sdPc' # sdPc =>
            <<sdPc, sdPc'>> \in {<<"CONNECTING", "STREAMING">>, <<"CONNECTING", "WAITING">>,
                                 <<"STREAMING", "WAITING">>, <<"WAITING", "CONNECTING">>,
                                 <<"STREAMING", "CLOSED">>, <<"WAITING", "CLOSED">>}
       /\ (sdPc = "STREAMING" /\ sdPc' = "WAITING") =>
            /\ Len(sdSock') = Len(sdSock) + 1
            /\ ~sdSock'[Len(sdSock')].ok
       /\ (sdPc = "WAITING" /\ sdPc' = "CONNECTING") => sdWait = "fired"
       /\ sdPc' = "CLOSED" => sdClosed
       /\ sdPc = "CLOSED" =>
            /\ sdPc' = "CLOSED"
            /\ UNCHANGED <<sdQueue, sdBuf, sdSock, sdLost>>]_vars

\* C14 happens: the worker has streamed, waited and reached CLOSED.
C14_Witness ==
    /\ sdPc = "CLOSED"
    /\ SentIds(sdSock) # {}
    /\ sdLost # {}

\* C15: the frame buffer never holds more than statsdMaxLen bytes, no socket
\* write carries more than statsdMaxLen bytes, and a line that would exceed the
\* limit has the buffer written and emptied first and then starts a fresh buffer.
C15_FrameBound ==
    [][/\ Bytes(sdBuf') <= statsdMaxLen
       /\ \A i \in 1 .. Len(sdSock') : Bytes(sdSock'[i].lines) <= statsdMaxLen
       /\ (sdPc = "STREAMING" /\ Len(sdQueue') < Len(sdQueue)
             /\ Head(sdQueue).len + Bytes(sdBuf) > statsdMaxLen) =>
            /\ Len(sdSock') = Len(sdSock) + 1
            /\ sdSock'[Len(sdSock')].lines = sdBuf
            /\ sdBuf' \in {<<Head(sdQueue)>>, <<>>}]_vars

\* A step in which the worker takes the pending tick.
TickStep == sdTick /\ ~sdTick'

\* C16: a tick taken while STREAMING writes a non-empty buffer to the socket in
\* full and empties it, and writes nothing when the buffer is empty; so when the
\* write succeeds every line that was in the buffer is on the socket after it.
C16_PeriodicFlush ==
    [][TickStep =>
        /\ sdPc = "STREAMING"
        /\ sdBuf' = <<>>
        /\ IF sdBuf = <<>>
           THEN sdSock' = sdSock
           ELSE /\ Len(sdSock') = Len(sdSock) + 1
                /\ SubSeq(sdSock', 1, Len(sdSock)) = sdSock
                /\ sdSock'[Len(sdSock')].lines = sdBuf
                /\ sdSock'[Len(sdSock')].ok => IdsOf(sdBuf) \subseteq SentIds(sdSock')]_vars

\* C16 happens: the only line emitted went out with a tick.
C16_Witness ==
    /\ ncalls = 1
    /\ Len(sdSock) = 1
    /\ sdSock[1].ok
    /\ sdSock[1].lines # <<>>
    /\ sdBuf = <<>>

\* C17: the worker enters WAITING with an empty buffer and a newly armed backoff
\* timer, leaves it for CONNECTING only when that timer has fired, never gets
\* to CONNECTING another way, and holds nothing in the buffer then; a line
\* dequeued while WAITING goes neither to the buffer nor to the socket, then or
\* later; and unless the sink is shut down WAITING leads to CONNECTING.
C17_Waiting ==
    /\ [][/\ (sdPc' = "WAITING" /\ sdPc # "WAITING") => sdWait' = "armed"
          /\ sdPc' = "WAITING" => sdBuf' = <<>>
          /\ (sdPc' = "CONNECTING" /\ sdPc # "CONNECTING") =>
                /\ sdPc = "WAITING"
                /\ sdWait = "fired"
                /\ sdBuf' = <<>>
          /\ (sdPc = "WAITING" /\ Len(sdQueue') < Len(sdQueue)) =>
                /\ sdLost' = sdLost \cup {Head(sdQueue).id}
                /\ UNCHANGED <<sdBuf, sdSock>>
          /\ sdLost' \cap (IdsOf(sdBuf') \cup FramedIds(sdSock')) = {}]_vars
    /\ (sdPc = "WAITING") ~> (sdPc = "CONNECTING" \/ sdClosed)

\* C17 happens: the worker is back in CONNECTING after it discarded a line.
C17_Witness ==
    /\ sdPc = "CONNECTING"
    /\ sdLost # {}
    /\ ~sdClosed

\* C18: when Shutdown ran while the worker was STREAMING and no socket write
\* failed afterwards, every line that was in the queue or in the buffer at that
\* moment has been written to the socket when the worker has terminated.
C18_ShutdownFlush ==
    (sdPc = "CLOSED" /\ sdShut.pc = "STREAMING" /\ ~sdShut.failed) =>
        sdShut.ids \subseteq SentIds(sdSock)

\* C19: no call of SetGauge / IncrCounter / AddSample made after Shutdown panics,
\* and the line of such a call is neither queued nor sent.
C19_NoRaiseAfterShutdown ==
    /\ ~sdPanic
    /\ sdShut.late \cap (IdsOf(sdQueue) \cup IdsOf(sdBuf) \cup FramedIds(sdSock)) = {}

\* The dimensions the datum of series k is to carry.
FirstDimensions(k) == IF Tags(k) > MaxDimensions THEN MaxDimensions ELSE Tags(k)

\* C20: no emission of the CloudWatch Sink panics, whatever the number of tags:
\* after the call the series is registered with the time of the call, and every
\* registered datum carries the first MaxDimensions of its tags as dimensions
\* (all of them when there are fewer).
C20_EmitNeverRaises ==
    [][(sys = "cw" /\ ncalls' = ncalls + 1) =>
        /\ ~cwPanic'
        /\ \E kind \in Kinds, k \in CwKeys :
              /\ CwMapOf(kind)'[k].on
              /\ CwMapOf(kind)'[k].ts = now
              /\ cwUpdates'[k] = now
        /\ \A kind \in Kinds, k \in CwKeys :
              CwMapOf(kind)'[k].on => CwMapOf(kind)'[k].dims = FirstDimensions(k)]_vars

\* C21: once Run has taken the case <-ctx.Done() it calls Flush exactly once
\* and returns; a returned Run does nothing more; and a cancelled context leads
\* to Run having returned.
C21_RunCancellation ==
    /\ [][/\ cwRun.pc = "returned" => cwRun' = cwRun
          /\ (~cwRun.seen /\ cwRun'.seen) =>
                  (ctxDone /\ cwRun'.pc = "done" /\ cwRun'.finals = 0)
          /\ (cwRun.seen /\ cwRun.pc # "returned") =>
                  (cwRun' # cwRun =>
                      /\ cwRun.pc = "done"
                      /\ cwRun'.pc = "returned"
                      /\ cwRun'.finals = 1
                      /\ cwRun'.flushes = cwRun.flushes + 1)]_vars
    /\ (ctxDone ~> (cwRun.pc = "returned"))

\* Run returns after a Flush on a tick and the Flush of the cancellation.
C21_Witness ==
    /\ cwRun.pc = "returned"
    /\ cwRun.seen
    /\ cwRun.finals = 1
    /\ cwRun.flushes >= 2

\* The words that mark an error of the credentials.
Credentials == {"expired", "NoCredentialProviders"}

\* C23: the Flush of a tick that fails with a message containing "expired" or
\* "NoCredentialProviders" makes Run return, and a returned Run does nothing
\* more; after any other Flush of a tick Run is back in its select, where a
\* pending tick can be taken; and whatever Flush returned, SetGauge, AddSample
\* and IncrCounter can be called and none has panicked.
C23_ErrorPolicy ==
    /\ [][/\ (cwRun.pc = "tick" /\ cwRun' # cwRun) =>
                cwRun'.pc = IF \E i \in 1 .. Len(cwRun'.err) : cwRun'.err[i] \in Credentials
                            THEN "returned" ELSE "select"
          /\ cwRun.pc = "returned" => cwRun' = cwRun]_vars
    /\ []((cwRun.pc = "select" /\ tickC) => ENABLED RunTick)
    /\ [](/\ ~cwPanic
          /\ ncalls < budget =>
                /\ ENABLED CwSetGauge("s", 1)
                /\ ENABLED CwAddSample("s", 1)
                /\ ENABLED CwIncrCounter("s", 1))

\* Run has returned on an error of the credentials, before any cancellation
\* and after an earlier Flush; the application went on emitting.
C23_Witness ==
    /\ cwRun.pc = "returned"
    /\ ~cwRun.seen
    /\ cwRun.flushes >= 2
    /\ \E i \in 1 .. Len(cwRun.err) : cwRun.err[i] \in Credentials
    /\ ncalls = budget

\* C22: when Bridge.Run returns after taking the case <-ctx.Done(), it has made
\* a scrape-and-publish since it observed the cancellation.
C22_FinalPublish ==
    [][(brRun.pc # "returned" /\ brRun'.pc = "returned" /\ brRun'.seen) =>
            brRun'.finals >= 1]_vars

\* The values of a query parameter that are durations.
Parsable == {"0s", "1s", "2s"}

\* The URL names no registered sink, or an InmemSink without a duration for
\* 'interval' or for 'retain'.
InvalidURL ==
    /\ args.fn = "NewMetricSinkFromURL"
    /\ \/ args.scheme \notin {"statsd", "inmem"}
       \/ /\ args.scheme = "inmem"
          /\ (args.interval \notin Parsable \/ args.retain \notin Parsable)

\* The constructor returned an error and no sink.
Rejected == ret.err # "" /\ ret.sink = "nil" /\ ~ret.panics

\* C24: a URL without a parsable interval or retain or with an unknown
\* scheme, and a CloudWatch Config without a namespace or without a region, give
\* an error and no sink.
C24_FailFast ==
    (sys = "factory" /\ ret.done) =>
        /\ InvalidURL => Rejected
        /\ (args.fn = "NewSink" /\ (args.Namespace = "" \/ args.AwsRegion = "")) => Rejected

\* C25: a constructed InmemSink keeps at least one bucket, no call of it
\* panics, and what Data returns holds at least the current bucket.
C25_RetainAtLeastOne ==
    sys = "inmem" =>
        /\ maxIntervals >= 1
        /\ \A t \in Threads : im[t].pc # "panic"
        /\ imData # NoData => imData.cur \in InRing(intervals)

\* The data Data owes for the registry as it stands: one datum per gauge and per
\* counter series, four per sample series, for every series in the registry
\* whose last write is not older than the expiry.
Owed ==
    {<<sl[1], sl[2], x>> : sl \in {c \in CwPresentSlots :
                                     CwMapOf(c[1])[c[2]].ts + cwExpiration >= now},
                          x \in Suffixes} \
        {d \in (Kinds \ {"summary"}) \X Keys \X (Suffixes \ {""}) : TRUE}

\* C26: with WithCleanup and WithSampleCount, a Data call returns exactly the
\* data owed for the series written since the previous Data call and not older
\* than the expiry, and leaves the registry empty.
C26_CleanupData ==
    [][(DataStep /\ withCleanup /\ withSampleCount) =>
            /\ cwData' = Owed
            /\ \A k \in Keys :
                  ~cwGauges'[k].on /\ ~cwSamples'[k].on /\ ~cwCounters'[k].on]_vars

\* The reference: sum, sum of squares, least and greatest of a sequence.
RECURSIVE SumOf(_)
SumOf(q) == IF q = <<>> THEN 0 ELSE Head(q) + SumOf(Tail(q))

RECURSIVE SumSqOf(_)
SumSqOf(q) == IF q = <<>> THEN 0 ELSE Head(q) * Head(q) + SumSqOf(Tail(q))

Least(q) == CHOOSE x \in InRing(q) : \A y \in InRing(q) : x <= y

Greatest(q) == CHOOSE x \in InRing(q) : \A y \in InRing(q) : x >= y

\* C27: after every Ingest of a non-empty sequence, Count, Sum, SumSq, Min, Max
\* are the count, sum, sum of squares, least and greatest of the values
\* ingested and Rate is Sum / rateDenom; Mean is Sum / Count; Stddev is 0 for
\* fewer than two values and else the root of
\* (Count * SumSq - Sum^2) / (Count * (Count - 1)); [1, 2, 3] gives count 3,
\* sum 6, min 1, max 3, mean 2, stddev 1.
C27_IngestReference ==
    (sys = "aggregate" /\ args # <<>>) =>
        LET n == Len(args)
            sd == Stddev(ret) IN
        /\ ret.count = n
        /\ ret.sum = SumOf(args)
        /\ ret.sumSq = SumSqOf(args)
        /\ ret.lo = Least(args)
        /\ ret.hi = Greatest(args)
        /\ \A i \in 1 .. n : ret.lo <= args[i] /\ args[i] <= ret.hi
        /\ ret.rate = <<SumOf(args), interval>>
        /\ Mean(ret)[1] * n = SumOf(args) * Mean(ret)[2]
        /\ n < 2 => sd.root = 0
        /\ n >= 2 =>
              /\ sd.of[1] * (n * (n - 1)) = (n * SumSqOf(args) - SumOf(args) * SumOf(args)) * sd.of[2]
              /\ sd.root # -1 => sd.root * sd.root * sd.of[2] = sd.of[1]
        /\ args = <<1, 2, 3>> =>
              /\ ret.count = 3 /\ ret.sum = 6 /\ ret.lo = 1 /\ ret.hi = 3
              /\ Mean(ret)[1] = 2 * Mean(ret)[2]
              /\ sd.root = 1

\* The values 1, 2, 3 have been ingested.
C27_Witness ==
    /\ sys = "aggregate"
    /\ args = <<1, 2, 3>>
    /\ ret.count = 3

\* Goroutine t takes the bucket lock and ingests.
IngestStep(t) == im[t].pc = "have" /\ im[t].op \in Kinds /\ im'[t].pc = "idle"

\* C28: an IncrCounter or AddSample that takes the bucket lock adds one to the
\* Count and its value to the Sum of the aggregate of its key in its bucket,
\* which exists from the first such call on, and a SetGauge leaves its value in
\* the bucket; nothing else in any bucket changes.
C28_NoLostIngest ==
    [][\A t \in Threads : IngestStep(t) =>
          LET b == im[t].m
              k == im[t].key
              v == im[t].val
              old == buckets[b]
              new == buckets'[b] IN
          /\ \A c \in BucketIds \ {b} : buckets'[c] = buckets[c]
          /\ new.start = old.start
          /\ im[t].op = "gauge" =>
                /\ new.Gauges[k] = v
                /\ new.Counters = old.Counters /\ new.Samples = old.Samples
          /\ im[t].op = "counter" =>
                /\ new.Counters[k].count = old.Counters[k].count + 1
                /\ new.Counters[k].sum = old.Counters[k].sum + v
                /\ new.Gauges = old.Gauges /\ new.Samples = old.Samples
          /\ im[t].op = "summary" =>
                /\ new.Samples[k].count = old.Samples[k].count + 1
                /\ new.Samples[k].sum = old.Samples[k].sum + v
                /\ new.Gauges = old.Gauges /\ new.Counters = old.Counters]_vars

\* The counter of one bucket has ingested the values 1 and 2, and both
\* goroutines have returned.
C28_Witness ==
    \E b \in BucketIds :
        /\ buckets[b].Counters["d"].count = 2
        /\ buckets[b].Counters["d"].sum = 3
        /\ \A t \in Threads : im[t].pc = "idle"

\* The reference for flattenKey, by position. Part i of the name starts after
\* Before(parts, i) characters: the earlier parts and one separator after each.
RECURSIVE Before(_, _)
Before(parts, i) == IF i = 1 THEN 0 ELSE Before(parts, i - 1) + Len(parts[i - 1]) + 1

\* Tag i of the identity starts after Ahead(labels, i) characters: for each
\* earlier tag a ';', the name, a '=' and the value.
RECURSIVE Ahead(_, _)
Ahead(labels, i) ==
    IF i = 1 THEN 0
    ELSE Ahead(labels, i - 1) + Len(labels[i - 1].Name) + Len(labels[i - 1].Value) + 2

\* The display name is the parts joined with '_', each space, '.', '=', '-' and
\* '/' replaced by '_'.
NameOk(in, out) ==
    /\ Len(out.key) = Before(in.parts, Len(in.parts) + 1) - 1
    /\ \A i \in 1 .. Len(in.parts) :
          /\ i > 1 => out.key[Before(in.parts, i)] = "_"
          /\ \A j \in 1 .. Len(in.parts[i]) :
                out.key[Before(in.parts, i) + j] =
                    IF in.parts[i][j] \in {" ", ".", "=", "-", "/"} THEN "_" ELSE in.parts[i][j]
    /\ \A j \in 1 .. Len(out.key) : out.key[j] \notin {" ", ".", "=", "-", "/"}

\* The identity is the display name followed by ';name=value' for each tag in
\* the order supplied.
IdentityOk(in, out) ==
    LET h == out.hash
        base == Len(out.key) IN
    /\ Len(h) = base + Ahead(in.labels, Len(in.labels) + 1)
    /\ SubSeq(h, 1, base) = out.key
    /\ \A i \in 1 .. Len(in.labels) :
          LET o == base + Ahead(in.labels, i)
              n == Len(in.labels[i].Name)
              v == Len(in.labels[i].Value) IN
          /\ h[o + 1] = ";"
          /\ SubSeq(h, o + 2, o + 1 + n) = in.labels[i].Name
          /\ h[o + 2 + n] = "="
          /\ SubSeq(h, o + 3 + n, o + 2 + n + v) = in.labels[i].Value

\* b is a with the value of one tag changed.
OneValueChanged(a, b) ==
    /\ a.parts = b.parts
    /\ Len(a.labels) = Len(b.labels)
    /\ \A i \in 1 .. Len(a.labels) : a.labels[i].Name = b.labels[i].Name
    /\ Cardinality({i \in 1 .. Len(a.labels) : a.labels[i].Value # b.labels[i].Value}) = 1

\* C29: flattenKey returns the display name (the parts joined with '_', every
\* forbidden character replaced by '_', the length kept) and the identity (the
\* display name followed by ';name=value' per tag in order); equal inputs give
\* equal outputs, sanitizing a display name changes nothing, and changing the
\* value of one tag changes the identity.
C29_FlattenKey ==
    (sys = "flatten" /\ ret # <<>>) =>
        /\ \A n \in {1, 2} :
              /\ NameOk(args[n], ret[n])
              /\ IdentityOk(args[n], ret[n])
              /\ flattenKey(<<ret[n].key>>, <<>>).key = ret[n].key
        /\ args[1] = args[2] => ret[1] = ret[2]
        /\ OneValueChanged(args[1], args[2]) => ret[1].hash # ret[2].hash

\* The keys of two metrics named "a", "." that differ in the value of one tag
\* have been flattened.
C29_Witness ==
    /\ sys = "flatten"
    /\ ret # <<>>
    /\ args[1].parts = <<<<"a">>, <<".">>>>
    /\ OneValueChanged(args[1], args[2])
    /\ ret[1].key = <<"a", "_", "_">>

\* The name parts, each sanitized.
Sanitized(parts) == [i \in 1 .. Len(parts) |-> Replace(parts[i])]

\* C30: two calls whose sanitized name parts differ or whose tag lists differ
\* get different identities.
C30_CollisionFree ==
    (/\ sys = "flatten"
     /\ ret # <<>>
     /\ \/ Sanitized(args[1].parts) # Sanitized(args[2].parts)
        \/ args[1].labels # args[2].labels) => ret[1].hash # ret[2].hash

\* How many times the tag t occurs in labels.
Times(labels, t) == Cardinality({i \in DOMAIN labels : labels[i] = t})

\* The two tag lists hold the same tags, each as many times, in any order.
SameTags(a, b) ==
    /\ Len(a) = Len(b)
    /\ \A i \in DOMAIN a : Times(a, a[i]) = Times(b, a[i])

\* C31: two calls of flattenKey with the same name parts and the same tags, in
\* any order, return the same hash.
C31_TagOrder ==
    (/\ sys = "flatten"
     /\ ret # <<>>
     /\ args[1].parts = args[2].parts
     /\ SameTags(args[1].labels, args[2].labels))
        => ret[1].hash = ret[2].hash

\* The calls the member s has received, in order.
CalledOf(s) == SelectSeq(called, LAMBDA c : c.sink = s)

\* C32: a call of SetGauge, IncrCounter or AddSample of a FanoutSink reaches
\* every member once for each time it is listed, in the order of the list and
\* with the method, key, value and tags of the call; no other call reaches a
\* member, and an empty FanoutSink calls nothing.
C32_Fanout ==
    /\ [][(sys = "fanout" /\ ncalls' # ncalls) =>
            /\ Len(called') = Len(called) + Len(fh)
            /\ SubSeq(called', 1, Len(called)) = called
            /\ \A i \in 1 .. Len(fh) :
                  LET c == called'[Len(called) + i] IN
                  /\ c.sink = fh[i]
                  /\ c.method = args'.method
                  /\ c.key = args'.key
                  /\ c.val = args'.val
                  /\ c.tags = args'.tags]_vars
    /\ [](sys = "fanout" =>
            \A s \in Members : Len(CalledOf(s)) = ncalls * Times(fh, s))
    /\ []((sys = "fanout" /\ fh = <<>>) => called = <<>>)

\* Two calls were made through a FanoutSink that lists one sink twice.
C32_Witness ==
    /\ sys = "fanout"
    /\ Len(fh) = 2
    /\ fh[1] = fh[2]
    /\ ncalls = 2
    /\ Len(called) = 4

\* The prepared key starts with a blocked prefix.
StartsBlocked == \E j \in DOMAIN args.BlockedPrefixes : HasPrefix(ret.key, args.BlockedPrefixes[j])

\* The prepared key starts with an allowed prefix.
StartsAllowed == \E j \in DOMAIN args.AllowedPrefixes : HasPrefix(ret.key, args.AllowedPrefixes[j])

\* C33: the facade forwards a metric to the sink exactly when its prepared key
\* starts with no blocked prefix and either starts with an allowed prefix or
\* FilterDefault is true.
C33_PrefixFilter ==
    (sys = "facade" /\ ret # <<>>) =>
        (called # <<>> <=> (~StartsBlocked /\ (StartsAllowed \/ args.FilterDefault)))

\* The sequences of seqs, one after the other.
RECURSIVE Flat(_)
Flat(seqs) == IF seqs = <<>> THEN <<>> ELSE Head(seqs) \o Flat(Tail(seqs))

\* C34: the Publish calls of one Flush carry between 1 and 1000 data each and,
\* one after the other, the data of Data() in order, each once: all of them
\* when Flush returns nil, and up to the call that failed when it returns an
\* error, which is the error of its last Publish call; no call for no data.
C34_FlushBatches ==
    (sys = "flush" /\ ret # <<>>) =>
        LET sent == Flat(ret.puts) IN
        /\ \A j \in DOMAIN ret.puts :
              Len(ret.puts[j]) >= 1 /\ Len(ret.puts[j]) <= 1000
        /\ Len(sent) <= Len(args)
        /\ sent = SubSeq(args, 1, Len(sent))
        /\ (ret.pc = "returned" /\ ret.err = <<>>) => sent = args
        /\ ret.err # <<>> => ret.pc = "returned"
        /\ args = <<>> => ret.puts = <<>>

\* A Flush of 2001 data has returned nil after three Publish calls, the last
\* one with a single datum.
C34_Witness ==
    /\ sys = "flush"
    /\ ret # <<>>
    /\ ret.pc = "returned"
    /\ ret.err = <<>>
    /\ Len(args) = 2001
    /\ Len(ret.puts) = 3
    /\ Len(ret.puts[3]) = 1

\* The labels of the metric m that count as dimensions.
Eligible(m) ==
    {l \in DOMAIN m : l \notin {MetricNameLabel, cwHighResLabel, cwUnitLabel} /\ m[l] # ""}

\* C35: appendDatum returns, and every datum it adds has at most 10 dimensions,
\* additional ones included; its label dimensions are the first eligible labels
\* of the metric in ascending order of name.
C35_DimensionLimit ==
    (sys = "datum" /\ ret # <<>>) =>
        /\ ~ret.panics
        /\ \A j \in DOMAIN ret.data :
              LET d == ret.data[j]
                  el == Eligible(args.s.Metric)
              IN  /\ Len(d.dims) + Cardinality(d.additional) <= 10
                  /\ \A i \in DOMAIN d.dims :
                        /\ d.dims[i].Name \in el
                        /\ Cardinality({l \in el : l < d.dims[i].Name}) = i - 1

\* C38: no PutMetricData request of publishMetricsToCloudWatch carries more than
\* batchSize (10) data.
C38_RequestSize ==
    sys = "batch" => \A j \in DOMAIN ret.requests : Len(ret.requests[j]) <= 10

\* C36: a Data call at time now returns a gauge, counter or sample entry of the
\* CloudWatch Sink exactly when now <= the time of that entry's own last write
\* + expiration.
C36_PerEntryExpiry ==
    [][DataStep =>
          \A sl \in CwPresentSlots :
              (sl \in CwReturned') <=> (now <= CwMapOf(sl[1])[sl[2]].ts + cwExpiration)]_vars

\* C37: the series a Flush of the CloudWatch Sink collected are still in the
\* registry after it when its Publish returned an error.
C37_CleanupPublished ==
    [][(sys = "cw" /\ cwRun'.flushes # cwRun.flushes /\ cwRun'.err # <<>>) =>
            \A sl \in CwReturned' : sl \in CwPresentSlots']_vars

\* The lines of all frames written to the socket, one frame after the other.
Frames(sock) == Flat([i \in 1 .. Len(sock) |-> sock[i].lines])

\* C39: the lines of the frames written to the socket, followed by those of the
\* buffer and of the queue, are in the order pushMetric accepted them, each
\* once; a line enters the queue whole by pushMetric only, the buffer from the
\* head of the queue only, and a frame is the whole buffer.
C39_DeliveryOrder ==
    /\ [](sys = "statsd" =>
            LET p == Frames(sdSock) \o sdBuf \o sdQueue IN
            \A i, j \in DOMAIN p : i < j => p[i].id < p[j].id)
    /\ [][sys = "statsd" =>
            /\ sdQueue' # sdQueue =>
                  \/ sdQueue # <<>> /\ sdQueue' = Tail(sdQueue)
                  \/ /\ PushStep
                     /\ \E len \in LineLens : sdQueue' = Append(sdQueue, Line(ncalls + 1, len))
            /\ sdBuf' # sdBuf =>
                  \/ sdBuf' = <<>>
                  \/ /\ sdQueue # <<>>
                     /\ sdQueue' = Tail(sdQueue)
                     /\ sdBuf' \in {Append(sdBuf, Head(sdQueue)), <<Head(sdQueue)>>}
            /\ sdSock' # sdSock =>
                  /\ Len(sdSock') = Len(sdSock) + 1
                  /\ SubSeq(sdSock', 1, Len(sdSock)) = sdSock
                  /\ sdSock'[Len(sdSock')].lines = sdBuf]_vars

\* A frame was written and failed, the worker has reconnected and written a
\* second frame with a later line.
C39_Witness ==
    /\ sys = "statsd"
    /\ Len(sdSock) = 2
    /\ sdSock[1].lines # <<>>
    /\ ~sdSock[1].ok
    /\ sdSock[2].lines # <<>>
    /\ sdSock[2].ok

\* C40: once Shutdown has closed the queue the worker reaches CLOSED, whatever
\* state it was in, with no help from a producer or from the backoff timer; the
\* only thing that stops it before is the panic of a producer that calls
\* pushMetric after Shutdown.
C40_WorkerTerminates ==
    /\ [][(sdPanic' /\ ~sdPanic) => (PushStep /\ sdClosed)]_vars
    /\ [][sdPc = "CLOSED" => sdPc' = "CLOSED"]_vars
    /\ (sdClosed ~> (sdPc = "CLOSED" \/ sdPanic))

\* The worker has terminated after a Shutdown that found it WAITING with a line
\* in the queue; the backoff timer has not fired and no producer has called since.
C40_Witness ==
    /\ sdPc = "CLOSED"
    /\ sdShut.pc = "WAITING"
    /\ sdShut.ids # {}
    /\ sdShut.late = {}
    /\ sdWait = "armed"
    /\ ~sdPanic

====
